---- MODULE Spec2Model ----
(***************************************************************************)
(* A model of the consensus-side proposal handler of the oracle            *)
(* (abci/proposals/proposals.go) and of the gRPC oracle client             *)
(* (service client).                                                       *)
(*                                                                         *)
(* The proposal handler runs synchronously on the consensus thread: one    *)
(* call of PrepareProposal or ProcessProposal is one action.  What the     *)
(* handler is given from outside (the downstream handlers, the verdict of  *)
(* the vote-extension validator, the request) is drawn from small sets.    *)
(* Transactions are byte strings, and the extended commit info is turned   *)
(* into bytes and back by an encoder and a parser, so that a proposal that *)
(* travels from the proposer to a peer is really re-parsed.                *)
(***************************************************************************)
EXTENDS Integers, Sequences, FiniteSets, TLC

VARIABLES
    pc,        \* where the consensus thread is: idle, or before/after a handler call
    ctx,       \* the context of the call
    req,       \* the request object the handler was given (held by pointer)
    recv,      \* the request as it was when it arrived
    resp,      \* the response the handler returned
    err,       \* the error the handler returned
    outcome,   \* "none", "return" or "panic"
    calls,     \* the calls the handler made to its collaborators, in order
    proposed   \* for a request that carries a built proposal: where it came from

handlerVars == <<pc, ctx, req, recv, resp, err, outcome, calls, proposed>>

VARIABLES
    client,    \* GRPCClient.client: 0 for nil, else the connection it wraps
    conn,      \* GRPCClient.conn: 0 for nil, else a connection
    mtx,       \* GRPCClient.mtx: 0 when free, else the goroutine that holds it
    conns,     \* the connections dialed so far, each "open" or "closed"
    cpc,       \* where each goroutine is in the method it runs
    dialed,    \* Start's local variable conn, per goroutine
    derived,   \* the context Prices derived, per goroutine
    inflight,  \* the remote call a goroutine has issued and not yet got back
    result,       \* what the method a goroutine ran last returned
    started    \* whether the dial of some Start has succeeded

clientVars == <<client, conn, mtx, conns, cpc, dialed, derived, inflight, result, started>>

VARIABLES
    providerPrices, \* the aggregator's input: provider name -> pair -> quote
    step,           \* "input", then "aggregated", then "again"
    prices,         \* the result of the aggregation: pair -> price
    renamed,        \* the input of the second aggregation
    pricesAgain     \* the result of the second aggregation

aggregatorVars == <<providerPrices, step, prices, renamed, pricesAgain>>

VARIABLES
    oracleCfg,  \* the orchestrator's configuration: provider name -> enabled
    marketMap,  \* the orchestrator's current market map: market -> providers
    registry,   \* the provider registry: provider name -> Provider State
    phase       \* "none", "created", "initialized" or "started"

orchestratorVars == <<oracleCfg, marketMap, registry, phase>>

VARIABLES
    runPc,          \* where runOracle is
    sigs,           \* the signals buffered in the channel sigs
    rootCtx,        \* the root context: "none", "live" or "cancelled"
    watcher,        \* the goroutine that waits for a signal
    orch,           \* the provider orchestrator: "none", "created", "failed", "started", "stopped"
    srv,            \* the oracle server: "none", "serving" or "closed"
    metricsEnabled, \* cfg.Metrics.Enabled
    ps,             \* the prometheus server: "none", "running" or "closed"
    runPprof,       \* the flag runPprof
    profiler,       \* the pprof server: "none" or "running"
    runErr,         \* what runOracle returned
    arrived         \* a signal has arrived since the orchestrator started

runVars ==
    <<runPc, sigs, rootCtx, watcher, orch, srv, metricsEnabled, ps, runPprof, profiler,
      runErr, arrived>>

VARIABLES
    cfgPc,               \* "flags", then "chosen", then "read"
    oracleCfgPath,       \* the flag --oracle-config
    legacyOracleCfgPath, \* the flag --oracle-config-path
    stat,                \* the file system at ./oracle.json and what os.Stat says of it
    legacyPath,          \* the path useLegacyOracleConfig returned
    legacyConfigInUse,   \* the boolean useLegacyOracleConfig returned
    cfgSource            \* the reader runOracle called, and on which path

configVars ==
    <<cfgPc, oracleCfgPath, legacyOracleCfgPath, stat, legacyPath, legacyConfigInUse,
      cfgSource>>

VARIABLES
    mcPc,          \* where MarketConfig.ValidateBasic is: "call", "loop" or "returned"
    mcName,        \* c.Name
    marketConfigs, \* c.CurrencyPairToMarketConfigs: key string -> market config
    original,      \* the map as it was when ValidateBasic was called
    pending,       \* the entries the range loop still has to produce
    created,       \* the entries created during the loop, which it may produce
    mcErr          \* what ValidateBasic returned

marketConfigVars == <<mcPc, mcName, marketConfigs, original, pending, created, mcErr>>

VARIABLES
    rmPc,    \* where MsgRemoveMarketAuthorities.ValidateBasic is: "call" or "returned"
    rmMsg,   \* the message: Admin and RemoveAddresses
    rmGiven, \* the message as it was when ValidateBasic was called
    rmErr    \* what ValidateBasic returned

removeVars == <<rmPc, rmMsg, rmGiven, rmErr>>

vars ==
    <<handlerVars, clientVars, aggregatorVars, orchestratorVars, runVars, configVars,
      marketConfigVars, removeVars>>

\* What the steps of one component leave alone.
notHandler ==
    <<clientVars, aggregatorVars, orchestratorVars, runVars, configVars, marketConfigVars,
      removeVars>>

notClient ==
    <<handlerVars, aggregatorVars, orchestratorVars, runVars, configVars, marketConfigVars,
      removeVars>>

notAggregator ==
    <<handlerVars, clientVars, orchestratorVars, runVars, configVars, marketConfigVars,
      removeVars>>

notOrchestrator ==
    <<handlerVars, clientVars, aggregatorVars, runVars, configVars, marketConfigVars,
      removeVars>>

notRun ==
    <<handlerVars, clientVars, aggregatorVars, orchestratorVars, configVars, marketConfigVars,
      removeVars>>

notConfig ==
    <<handlerVars, clientVars, aggregatorVars, orchestratorVars, runVars, marketConfigVars,
      removeVars>>

notMarketConfig ==
    <<handlerVars, clientVars, aggregatorVars, orchestratorVars, runVars, configVars,
      removeVars>>

notRemove ==
    <<handlerVars, clientVars, aggregatorVars, orchestratorVars, runVars, configVars,
      marketConfigVars>>

\* ------------------------------------------------------------------ bounds

\* The longest transaction list of a request.
MaxTxs == 2

\* The most entries of a market config's map of currency pairs.
MaxEntries == 2

\* The longest list of addresses of a message that removes market authorities.
MaxAddresses == 2

\* Block heights of requests are 1..MaxHeight.
MaxHeight == 2

\* The goroutines that use the oracle client at the same time.
MaxCallers == 2

\* The connections all Starts together dial successfully.
MaxDials == 2

\* The width in bits of a price (256 in the program).
Width == 9

\* The deadlines of the contexts callers hand to Prices are 1..MaxDeadline
\* ticks away, or there is none.
MaxDeadline == 3

\* ------------------------------------------------------- program constants

NumInjectedTxs == 1

OracleInfoIndex == 0

\* ------------------------------------------------------------------ values

RECURSIVE SeqsUpTo(_, _)
SeqsUpTo(S, n) ==
    IF n = 0 THEN {<<>>}
    ELSE LET shorter == SeqsUpTo(S, n - 1)
         IN  shorter \cup {Append(s, x) : s \in {t \in shorter : Len(t) = n - 1}, x \in S}

Heights == 1..MaxHeight

\* An extended commit info: the round and the votes, a vote being one opaque byte.
Infos == [Round : {0, 1}, Votes : {<<>>, <<1>>}]

ZeroInfo == [Round |-> 0, Votes |-> <<>>]

\* ExtendedCommitInfo.Marshal: field 1 (varint, tag byte 8) is the round, left
\* out when zero; field 2 (length-delimited, tag byte 18) is repeated, once
\* per vote.  The encoder of this message has no failing path.
RECURSIVE MarshalVotes(_)
MarshalVotes(votes) ==
    IF votes = <<>> THEN <<>>
    ELSE <<18, 1, Head(votes)>> \o MarshalVotes(Tail(votes))

\* A variant of Marshal that leaves the votes out.
MarshalRoundOnly(info) ==
    [bz |-> IF info.Round # 0 THEN <<8, info.Round>> ELSE <<>>, err |-> "nil"]

Marshal(info) ==
    [bz  |-> (IF info.Round # 0 THEN <<8, info.Round>> ELSE <<>>)
                \o MarshalVotes(info.Votes),
     err |-> "nil"]

\* ExtendedCommitInfo.Unmarshal: reads field after field until the bytes are
\* used up; a later round overwrites an earlier one, votes accumulate; a
\* truncated field or a tag that is no field of the message is an error.
RECURSIVE UnmarshalFrom(_, _)
UnmarshalFrom(bz, acc) ==
    IF bz = <<>> THEN [info |-> acc, err |-> "nil"]
    ELSE IF Head(bz) = 8
    THEN IF Len(bz) < 2
         THEN [info |-> acc, err |-> "unexpected EOF"]
         ELSE UnmarshalFrom(SubSeq(bz, 3, Len(bz)), [acc EXCEPT !.Round = bz[2]])
    ELSE IF Head(bz) = 18
    THEN IF Len(bz) < 2 \/ Len(bz) < 2 + bz[2]
         THEN [info |-> acc, err |-> "unexpected EOF"]
         ELSE UnmarshalFrom(SubSeq(bz, 3 + bz[2], Len(bz)),
                            [acc EXCEPT !.Votes = Append(@, bz[3])])
    ELSE [info |-> acc, err |-> "illegal tag"]

Unmarshal(bz) == UnmarshalFrom(bz, ZeroInfo)

\* Ordinary transactions: byte strings that do not parse as a commit info.
OrdinaryTxs == {<<7>>, <<9>>}

\* The transactions a request is made of: ordinary ones, the encoding of
\* every commit info, and a truncated encoding.
TxPool == OrdinaryTxs \cup {Marshal(i).bz : i \in Infos} \cup {<<18, 2, 1>>}

TxLists == SeqsUpTo(TxPool, MaxTxs)

Contexts == [voteExtensionsEnabled : BOOLEAN]

NilRequest == [isNil |-> TRUE, Height |-> 0, Txs |-> <<>>, LocalLastCommit |-> ZeroInfo]

PrepareRequests ==
    {NilRequest} \cup
    [isNil : {FALSE}, Height : Heights, Txs : TxLists, LocalLastCommit : Infos]

ProcessRequests ==
    [isNil : {FALSE}, Height : Heights, Txs : TxLists, LocalLastCommit : {ZeroInfo}]

NilResponse == [isNil |-> TRUE, Txs |-> <<>>, Status |-> "UNKNOWN"]

Proposal(txs) == [isNil |-> FALSE, Txs |-> txs, Status |-> "UNKNOWN"]

Verdict(status) == [isNil |-> FALSE, Txs |-> <<>>, Status |-> status]

\* One call the handler makes to a collaborator, with what it returned.
Made(fn, height, info, txs, ret) ==
    [fn |-> fn, height |-> height, info |-> info, txs |-> txs, ret |-> ret,
     out |-> NilResponse]

CallEnabled(c) ==
    Made("enabled", 0, ZeroInfo, <<>>, IF c.voteExtensionsEnabled THEN "true" ELSE "false")

CallValidate(height, info, ret) == Made("validate", height, info, <<>>, ret)

CallMarshal(info, ret) == Made("marshal", 0, info, <<>>, ret)

CallUnmarshal(bz, ret) == Made("unmarshal", 0, ZeroInfo, <<bz>>, ret)

CallPrepare(txs, d) == [Made("prepare", 0, ZeroInfo, txs, d.err) EXCEPT !.out = d.resp]

CallProcess(txs, d) == [Made("process", 0, ZeroInfo, txs, d.err) EXCEPT !.out = d.resp]

\* What one call of a handler leaves behind: the response and error it
\* returned (or that it panicked), the calls it made, and the request object,
\* which the handler holds by pointer and may have changed.
Returned(response, error, made, request) ==
    [outcome |-> "return", resp |-> response, err |-> error,
     calls |-> made, req |-> request]

Panicked(made, request) ==
    [outcome |-> "panic", resp |-> NilResponse, err |-> "nil",
     calls |-> made, req |-> request]

\* ------------------------------------------------------------ collaborators

\* ve.VoteExtensionsEnabled(ctx): whether vote extensions are enabled at the
\* height of the context.
VoteExtensionsEnabled(c) == c.voteExtensionsEnabled

\* h.ValidateExtendedCommitInfo(ctx, height, extInfo): the verdict of the
\* vote-extension validator, nil or a descriptive error.  The validator is
\* handed to the handler at construction; its verdict on the commit info of a
\* call is an input of that call.
ValidateExtendedCommitInfo(accepts) ==
    IF accepts THEN "nil" ELSE "invalid vote extensions"

Reverse(s) == [i \in 1..Len(s) |-> s[Len(s) + 1 - i]]

\* The downstream prepare handler is handed to the handler at construction and
\* may do anything with the transactions it is given: keep them, drop the
\* first or the last, reorder them, replace the first, return none, fail
\* (with a response besides the error), or return no response at all.
PrepareBehaviours ==
    {"keep", "dropFirst", "dropLast", "reverse", "replace", "empty", "fail", "nil"}

DownstreamPrepare(b, txs) ==
    CASE b = "keep"      -> [resp |-> Proposal(txs), err |-> "nil"]
      [] b = "dropFirst" -> [resp |-> Proposal(IF txs = <<>> THEN <<>> ELSE Tail(txs)),
                             err |-> "nil"]
      [] b = "dropLast"  -> [resp |-> Proposal(SubSeq(txs, 1, Len(txs) - 1)), err |-> "nil"]
      [] b = "reverse"   -> [resp |-> Proposal(Reverse(txs)), err |-> "nil"]
      [] b = "replace"   -> [resp |-> Proposal(IF txs = <<>> THEN <<>>
                                               ELSE <<<<7>>>> \o Tail(txs)),
                             err |-> "nil"]
      [] b = "empty"     -> [resp |-> Proposal(<<>>), err |-> "nil"]
      [] b = "fail"      -> [resp |-> Proposal(txs), err |-> "prepare failed"]
      [] b = "nil"       -> [resp |-> NilResponse, err |-> "nil"]

\* The downstream process handler: accepts, rejects, or fails without a
\* response.
ProcessBehaviours == {"accept", "reject", "fail"}

DownstreamProcess(b, txs) ==
    CASE b = "accept" -> [resp |-> Verdict("ACCEPT"), err |-> "nil"]
      [] b = "reject" -> [resp |-> Verdict("REJECT"), err |-> "nil"]
      [] b = "fail"   -> [resp |-> NilResponse, err |-> "process failed"]

\* ---------------------------------------------------------- PrepareProposal

\* A variant of Inject that appends.
InjectAtEnd(extInfoBz, txs) == Append(txs, extInfoBz)

\* append([][]byte{extInfoBz}, txs...)
Inject(extInfoBz, txs) == <<extInfoBz>> \o txs

\* A variant of InjectionMissing that only looks at the length.
InjectionMissingLenOnly(txs, extInfoBz) == Len(txs) < 1

\* len(resp.Txs) < 1 || !bytes.Equal(resp.Txs[0], extInfoBz)
InjectionMissing(txs, extInfoBz) ==
    Len(txs) < 1 \/ txs[OracleInfoIndex + 1] # extInfoBz

\* &cometabci.ResponsePrepareProposal{Txs: make([][]byte, 0)}
EmptyProposal == Proposal(<<>>)

\* A variant of BuildProposal that re-injects whether or not vote extensions
\* are enabled.
BuildProposalAlwaysReinject(enabled, extInfoBz, r, b, made) ==
    LET d == DownstreamPrepare(b, r.Txs)
        all == Append(made, CallPrepare(r.Txs, d))
    IN  IF d.err # "nil" THEN Returned(EmptyProposal, d.err, all, r)
        ELSE IF d.resp.isNil THEN Panicked(all, r)
        ELSE IF InjectionMissing(d.resp.Txs, extInfoBz)
        THEN Returned(Proposal(Inject(extInfoBz, d.resp.Txs)), "nil", all, r)
        ELSE Returned(d.resp, "nil", all, r)

\* A variant of BuildProposal that hands back the downstream response together
\* with the downstream error.
BuildProposalKeepOnError(enabled, extInfoBz, r, b, made) ==
    LET d == DownstreamPrepare(b, r.Txs)
        all == Append(made, CallPrepare(r.Txs, d))
    IN  IF d.err # "nil" THEN Returned(d.resp, d.err, all, r)
        ELSE IF d.resp.isNil THEN Panicked(all, r)
        ELSE IF enabled /\ InjectionMissing(d.resp.Txs, extInfoBz)
        THEN Returned(Proposal(Inject(extInfoBz, d.resp.Txs)), "nil", all, r)
        ELSE Returned(d.resp, "nil", all, r)

\* A variant of BuildProposal that overwrites the head of the downstream
\* response with the commit info instead of prepending it.
BuildProposalReplaceHead(enabled, extInfoBz, r, b, made) ==
    LET d == DownstreamPrepare(b, r.Txs)
        all == Append(made, CallPrepare(r.Txs, d))
    IN  IF d.err # "nil" THEN Returned(EmptyProposal, d.err, all, r)
        ELSE IF d.resp.isNil THEN Panicked(all, r)
        ELSE IF enabled /\ InjectionMissing(d.resp.Txs, extInfoBz)
        THEN Returned(Proposal(Inject(extInfoBz,
                                      IF d.resp.Txs = <<>> THEN <<>>
                                      ELSE Tail(d.resp.Txs))), "nil", all, r)
        ELSE Returned(d.resp, "nil", all, r)

\* The steps after the injection: build the proposal with the downstream
\* handler and re-inject the commit info if it is not at the head.
BuildProposal(enabled, extInfoBz, r, b, made) ==
    LET d == DownstreamPrepare(b, r.Txs)
        all == Append(made, CallPrepare(r.Txs, d))
    IN  IF d.err # "nil" THEN Returned(EmptyProposal, d.err, all, r)
        ELSE IF d.resp.isNil THEN Panicked(all, r)
        ELSE IF enabled /\ InjectionMissing(d.resp.Txs, extInfoBz)
        THEN Returned(Proposal(Inject(extInfoBz, d.resp.Txs)), "nil", all, r)
        ELSE Returned(d.resp, "nil", all, r)

\* A variant of PrepareProposalHandler that injects before it validates.
PrepareInjectFirst(c, r, accepts, b) ==
    IF r.isNil
    THEN Returned(EmptyProposal, "received a nil request", <<>>, r)
    ELSE
    LET voteExtensionsEnabled == VoteExtensionsEnabled(c)
        extInfo == r.LocalLastCommit
        verr == ValidateExtendedCommitInfo(accepts)
        m == Marshal(extInfo)
        injected == [r EXCEPT !.Txs = Inject(m.bz, r.Txs)]
        c1 == <<CallEnabled(c)>>
        c2 == Append(c1, CallMarshal(extInfo, m.err))
        c3 == Append(c2, CallValidate(r.Height, extInfo, verr))
    IN  IF ~voteExtensionsEnabled
        THEN BuildProposal(FALSE, <<>>, r, b, c1)
        ELSE IF m.err # "nil"
        THEN Returned(EmptyProposal, m.err, c2, r)
        ELSE IF verr # "nil"
        THEN Returned(EmptyProposal, verr, c3, injected)
        ELSE BuildProposal(TRUE, m.bz, injected, b, c3)

\* A variant of PrepareProposalHandler that asks whether vote extensions are
\* enabled before it looks at the request.
PrepareNilCheckLate(c, r, accepts, b) ==
    LET voteExtensionsEnabled == VoteExtensionsEnabled(c)
        c1 == <<CallEnabled(c)>>
    IN  IF r.isNil
        THEN Returned(EmptyProposal, "received a nil request", c1, r)
        ELSE
        LET extInfo == r.LocalLastCommit
            verr == ValidateExtendedCommitInfo(accepts)
            m == Marshal(extInfo)
            c2 == Append(c1, CallValidate(r.Height, extInfo, verr))
            c3 == Append(c2, CallMarshal(extInfo, m.err))
        IN  IF ~voteExtensionsEnabled
            THEN BuildProposal(FALSE, <<>>, r, b, c1)
            ELSE IF verr # "nil"
            THEN Returned(EmptyProposal, verr, c2, r)
            ELSE IF m.err # "nil"
            THEN Returned(EmptyProposal, m.err, c3, r)
            ELSE BuildProposal(TRUE, m.bz, [r EXCEPT !.Txs = Inject(m.bz, r.Txs)], b, c3)

\* One call of the prepare handler on request r under context c, with the
\* validator's verdict on the local commit and the downstream behaviour b.
PrepareProposalHandler(c, r, accepts, b) ==
    IF r.isNil
    THEN Returned(EmptyProposal, "received a nil request", <<>>, r)
    ELSE
    LET voteExtensionsEnabled == VoteExtensionsEnabled(c)
        extInfo == r.LocalLastCommit
        verr == ValidateExtendedCommitInfo(accepts)
        m == Marshal(extInfo)
        c1 == <<CallEnabled(c)>>
        c2 == Append(c1, CallValidate(r.Height, extInfo, verr))
        c3 == Append(c2, CallMarshal(extInfo, m.err))
    IN  IF ~voteExtensionsEnabled
        THEN BuildProposal(FALSE, <<>>, r, b, c1)
        ELSE IF verr # "nil"
        THEN Returned(EmptyProposal, verr, c2, r)
        ELSE IF m.err # "nil"
        THEN Returned(EmptyProposal, m.err, c3, r)
        ELSE BuildProposal(TRUE, m.bz, [r EXCEPT !.Txs = Inject(m.bz, r.Txs)], b, c3)

\* ---------------------------------------------------------- ProcessProposal

\* A variant of Strip that strips nothing.
StripNothing(txs) == txs

\* req.Txs[NumInjectedTxs:]
Strip(txs) == SubSeq(txs, NumInjectedTxs + 1, Len(txs))

\* A variant of Rejected that drops the error.
RejectedWithoutError(error, made, r) == Returned(Verdict("REJECT"), "nil", made, r)

\* return &cometabci.ResponseProcessProposal{Status: REJECT}, err
Rejected(error, made, r) == Returned(Verdict("REJECT"), error, made, r)

\* A variant of Delegate that answers ACCEPT itself.
DelegateAccepting(r, b, made) ==
    LET d == DownstreamProcess(b, r.Txs)
    IN  Returned(Verdict("ACCEPT"), "nil", Append(made, CallProcess(r.Txs, d)), r)

\* return h.processProposalHandler(ctx, req)
Delegate(r, b, made) ==
    LET d == DownstreamProcess(b, r.Txs)
    IN  Returned(d.resp, d.err, Append(made, CallProcess(r.Txs, d)), r)

\* A variant of ProcessProposalHandler that goes on after a failed validation.
ProcessWithoutValidation(c, r, accepts, b) ==
    IF r.isNil THEN Panicked(<<>>, r)
    ELSE
    LET voteExtensionsEnabled == VoteExtensionsEnabled(c)
        c1 == <<CallEnabled(c)>>
    IN  IF ~voteExtensionsEnabled THEN Delegate(r, b, c1)
        ELSE IF Len(r.Txs) < NumInjectedTxs
        THEN Rejected("missing commit info", c1, r)
        ELSE
        LET bz == r.Txs[OracleInfoIndex + 1]
            u == Unmarshal(bz)
            c2 == Append(c1, CallUnmarshal(bz, u.err))
            verr == ValidateExtendedCommitInfo(accepts)
            c3 == Append(c2, CallValidate(r.Height, u.info, verr))
        IN  IF u.err # "nil" THEN Rejected(u.err, c2, r)
            ELSE Delegate([r EXCEPT !.Txs = Strip(r.Txs)], b, c3)

\* A variant of ProcessProposalHandler that strips the request's Txs before
\* it unmarshals and validates.
ProcessStripFirst(c, r, accepts, b) ==
    IF r.isNil THEN Panicked(<<>>, r)
    ELSE
    LET voteExtensionsEnabled == VoteExtensionsEnabled(c)
        c1 == <<CallEnabled(c)>>
    IN  IF ~voteExtensionsEnabled THEN Delegate(r, b, c1)
        ELSE IF Len(r.Txs) < NumInjectedTxs
        THEN Rejected("missing commit info", c1, r)
        ELSE
        LET bz == r.Txs[OracleInfoIndex + 1]
            stripped == [r EXCEPT !.Txs = Strip(r.Txs)]
            u == Unmarshal(bz)
            c2 == Append(c1, CallUnmarshal(bz, u.err))
            verr == ValidateExtendedCommitInfo(accepts)
            c3 == Append(c2, CallValidate(r.Height, u.info, verr))
        IN  IF u.err # "nil" THEN Rejected(u.err, c2, stripped)
            ELSE IF verr # "nil" THEN Rejected(verr, c3, stripped)
            ELSE Delegate(stripped, b, c3)

\* One call of the process handler on request r under context c, with the
\* validator's verdict on the commit info of the proposal and the downstream
\* behaviour b.  A nil request is dereferenced by the first log line.
ProcessProposalHandler(c, r, accepts, b) ==
    IF r.isNil THEN Panicked(<<>>, r)
    ELSE
    LET voteExtensionsEnabled == VoteExtensionsEnabled(c)
        c1 == <<CallEnabled(c)>>
    IN  IF ~voteExtensionsEnabled THEN Delegate(r, b, c1)
        ELSE IF Len(r.Txs) < NumInjectedTxs
        THEN Rejected("missing commit info", c1, r)
        ELSE
        LET bz == r.Txs[OracleInfoIndex + 1]
            u == Unmarshal(bz)
            c2 == Append(c1, CallUnmarshal(bz, u.err))
            verr == ValidateExtendedCommitInfo(accepts)
            c3 == Append(c2, CallValidate(r.Height, u.info, verr))
        IN  IF u.err # "nil" THEN Rejected(u.err, c2, r)
            ELSE IF verr # "nil" THEN Rejected(verr, c3, r)
            ELSE Delegate([r EXCEPT !.Txs = Strip(r.Txs)], b, c3)

\* ------------------------------------------------------------------ actions

NotProposed ==
    [built |-> FALSE, Height |-> 0, Info |-> ZeroInfo, Inner |-> <<>>, kept |-> FALSE,
     selected |-> FALSE]

\* How often a transaction occurs in a list.
Count(tx, txs) == Cardinality({i \in 1..Len(txs) : txs[i] = tx})

\* The transactions of out are taken from those of in, none more often than
\* it occurs there.
SelectedFrom(out, in) ==
    \A i \in 1..Len(out) : Count(out[i], out) <= Count(out[i], in)

NoContext == [voteExtensionsEnabled |-> FALSE]

InitHandler ==
    /\ pc = "idle"
    /\ ctx = NoContext
    /\ req = NilRequest
    /\ recv = NilRequest
    /\ resp = NilResponse
    /\ err = "nil"
    /\ outcome = "none"
    /\ calls = <<>>
    /\ proposed = NotProposed

\* ------------------------------------------------------------- GRPCClient

\* The goroutines that call methods of the one client.
Callers == 1..MaxCallers

\* A context without a deadline.
NoDeadline == 0

\* GRPCClient.timeout, in ticks.
ClientTimeout == 2

\* The deadlines of the contexts Prices is called with, in ticks from the call.
CallerDeadlines == {NoDeadline} \cup (1..MaxDeadline)

\* A variant of WithTimeout that keeps the deadline of the parent.
WithParentDeadline(parent, timeout) == parent

\* context.WithTimeout(ctx, timeout): the deadline of the derived context is
\* the timeout away, or the parent's if that is earlier.
WithTimeout(parent, timeout) ==
    IF parent # NoDeadline /\ parent < timeout THEN parent ELSE timeout

NoContextDerived ==
    [live |-> FALSE, deadline |-> NoDeadline, cancelled |-> FALSE]

NoCall == [issued |-> FALSE, conn |-> 0, deadline |-> NoDeadline, waitForReady |-> FALSE]

NoReturn ==
    [op |-> "none", outcome |-> "none", resp |-> "nil", err |-> "nil",
     remote |-> FALSE, started |-> FALSE]

\* NewGRPCClient: the address and the timeout are set, client and conn are nil.
InitClient ==
    /\ client = 0
    /\ conn = 0
    /\ mtx = 0
    /\ conns = <<>>
    /\ cpc = [g \in Callers |-> "idle"]
    /\ dialed = [g \in Callers |-> 0]
    /\ derived = [g \in Callers |-> NoContextDerived]
    /\ inflight = [g \in Callers |-> NoCall]
    /\ result = [g \in Callers |-> NoReturn]
    /\ started = FALSE

\* --------------------------------------------------------------- aggregator

\* The provider names and the pairs of the aggregation inputs.
Providers == {"provider1", "provider2", "provider3"}

Pairs == {"BTC/USD", "USDT/USD"}

\* The largest price: 2^Width - 1.
MaxUint == 2^Width - 1

\* The prices providers report: those of the inputs above and the largest.
PriceValues == {100, 200, 300, MaxUint}

\* A provider's entry for a pair: none, one whose Price is nil, or a price.
NoQuote == [has |-> FALSE, isNil |-> TRUE, Price |-> 0]

NilQuote == [has |-> TRUE, isNil |-> TRUE, Price |-> 0]

QuotePrice(v) == [has |-> TRUE, isNil |-> FALSE, Price |-> v]

\* The quotes a provider may hold for a pair; the second pair is the one
\* with the missing and the nil quotes.
QuotesOf(cp) ==
    IF cp = "BTC/USD"
    THEN {NoQuote, NilQuote} \cup {QuotePrice(v) : v \in PriceValues}
    ELSE {NoQuote, NilQuote, QuotePrice(100)}

\* types.AggregatedProviderPrices
AggregatedProviderPrices ==
    {pp \in [Providers -> [Pairs -> UNION {QuotesOf(cp) : cp \in Pairs}]] :
        \A p \in Providers, cp \in Pairs : pp[p][cp] \in QuotesOf(cp)}

NoProviderPrices == [p \in Providers |-> [cp \in Pairs |-> NoQuote]]

\* map[oracletypes.CurrencyPair]*uint256.Int{}
NoPrices == [cp \in {} |-> 0]

\* The orders in which a map of the providers can be iterated.
IterationOrders ==
    {o \in [1..Cardinality(Providers) -> Providers] :
        \A i, j \in 1..Cardinality(Providers) : i # j => o[i] # o[j]}

\* The same per-provider prices under other provider names.
Renamings == Permutations(Providers)

Rename(pp, pi) == [p \in Providers |-> pp[pi[p]]]

\* The non-nil prices of a pair, in the order the providers are iterated.
RECURSIVE CollectFrom(_, _, _, _)
CollectFrom(pp, order, cp, i) ==
    IF i > Len(order) THEN <<>>
    ELSE LET q == pp[order[i]][cp]
         IN  (IF q.has /\ ~q.isNil THEN <<q.Price>> ELSE <<>>)
                 \o CollectFrom(pp, order, cp, i + 1)

Collect(pp, order, cp) == CollectFrom(pp, order, cp, 1)

\* Sort ascending by unsigned magnitude.
RECURSIVE Insert(_, _)
Insert(v, sorted) ==
    IF sorted = <<>> THEN <<v>>
    ELSE IF v <= Head(sorted) THEN <<v>> \o sorted
    ELSE <<Head(sorted)>> \o Insert(v, Tail(sorted))

\* A variant of SortAscending that leaves the values in the order collected.
Unsorted(values) == values

RECURSIVE SortAscending(_)
SortAscending(values) ==
    IF values = <<>> THEN <<>>
    ELSE Insert(Head(values), SortAscending(Tail(values)))

\* A variant of WideMean whose sum wraps at the width of a price.
WrappingMean(a, b) == ((a + b) % 2^Width) \div 2

\* (a + b) / 2 with the sum held in one bit more than a price has.
WideMean(a, b) == ((a + b) % 2^(Width + 1)) \div 2

\* A variant of Median that takes the upper middle element of an even count.
MedianUpperMiddle(sorted) == sorted[Len(sorted) \div 2 + 1]

\* The median of a non-empty ascending list.
Median(sorted) ==
    LET n == Len(sorted)
        middle == n \div 2
    IN  IF n % 2 = 0 THEN WideMean(sorted[middle], sorted[middle + 1])
        ELSE sorted[middle + 1]

\* A variant of ComputeMedian that takes a nil price as the price 0.
ComputeMedianNilAsZero(pp, order) ==
    LET zeroed == [p \in Providers |-> [cp \in Pairs |->
                      IF pp[p][cp] = NilQuote THEN QuotePrice(0) ELSE pp[p][cp]]]
        quoted == {cp \in Pairs : Collect(zeroed, order, cp) # <<>>}
    IN  [cp \in quoted |-> Median(SortAscending(Collect(zeroed, order, cp)))]

\* types.ComputeMedian(): the median per pair of the providers' non-nil
\* prices; a pair without one is left out.
ComputeMedian(pp, order) ==
    LET quoted == {cp \in Pairs : Collect(pp, order, cp) # <<>>}
    IN  [cp \in quoted |-> Median(SortAscending(Collect(pp, order, cp)))]

\* No aggregation is under way.
InitAggregator ==
    /\ providerPrices = NoProviderPrices
    /\ step = "idle"
    /\ prices = NoPrices
    /\ renamed = NoProviderPrices
    /\ pricesAgain = NoPrices

\* ------------------------------------------------------------- orchestrator

\* The providers of the oracle configuration and the markets of the market
\* map.
ConfiguredProviders == {"binance", "coinbase", "okx"}

Markets == {"BITCOIN/USD", "ETHEREUM/USD"}

\* mmtypes.MarketMap: for each market the providers that supply it; a market
\* nobody supplies is one the map does not have.
MarketMaps == [Markets -> SUBSET ConfiguredProviders]

NoMarketMap == [m \in Markets |-> {}]

\* The tickers of the market map a provider is responsible for.
TickersOf(mm, p) == {m \in Markets : p \in mm[m]}

\* orchestrator.ProviderState: the provider (its subscribed IDs, whether it
\* runs), the subset of the market map it is responsible for, whether it is
\* enabled, and whether its last start failed.
NoProviderState ==
    [exists |-> FALSE, Enabled |-> FALSE, running |-> FALSE, Market |-> {},
     ids |-> {}, failed |-> FALSE]

\* A provider is constructed for its subset of the market map.
Construct(p, mm, cfg) ==
    [exists |-> TRUE, Enabled |-> cfg[p], running |-> FALSE,
     Market |-> TickersOf(mm, p), ids |-> TickersOf(mm, p), failed |-> FALSE]

\* A provider that is enabled, has pairs and does not run is started; a start
\* that fails leaves it enabled and not running.
StartProvider(st, fails) ==
    IF st.exists /\ st.Enabled /\ st.Market # {} /\ ~st.running
    THEN IF fails THEN [st EXCEPT !.failed = TRUE]
         ELSE [st EXCEPT !.running = TRUE, !.failed = FALSE]
    ELSE st

\* A variant of UpdateProvider that records the new subset in the Provider
\* State and leaves the provider's subscriptions as they were.
UpdateMarketOnly(st, tickers) == [st EXCEPT !.Market = tickers]

\* update(new pair set)
UpdateProvider(st, tickers) == [st EXCEPT !.Market = tickers, !.ids = tickers]

\* The reconciliation of one provider with a new market map: a provider no
\* longer referenced is stopped and removed, an existing one is updated and
\* started if it was stopped, a newly referenced one is constructed and
\* started.
ReconcileProvider(st, p, mm, cfg, fails) ==
    IF TickersOf(mm, p) = {} THEN NoProviderState
    ELSE IF st.exists THEN StartProvider(UpdateProvider(st, TickersOf(mm, p)), fails)
    ELSE StartProvider(Construct(p, mm, cfg), fails)

InitOrchestrator ==
    /\ oracleCfg = [p \in ConfiguredProviders |-> FALSE]
    /\ marketMap = NoMarketMap
    /\ registry = [p \in ConfiguredProviders |-> NoProviderState]
    /\ phase = "none"

\* orchestrator.NewProviderOrchestrator(cfg, ...)
NewProviderOrchestrator ==
    /\ phase = "none"
    /\ oracleCfg' \in [ConfiguredProviders -> BOOLEAN]
    /\ phase' = "created"
    /\ UNCHANGED <<marketMap, registry, notOrchestrator>>

\* Initialization: the market map is consumed and a Provider State recorded
\* for each provider it references.
Initialize ==
    /\ phase = "created"
    /\ \E mm \in MarketMaps :
           /\ marketMap' = mm
           /\ registry' = [p \in ConfiguredProviders |->
                              IF TickersOf(mm, p) = {} THEN NoProviderState
                              ELSE Construct(p, mm, oracleCfg)]
    /\ phase' = "initialized"
    /\ UNCHANGED <<oracleCfg, notOrchestrator>>

\* Start: each provider that is enabled and has pairs is started; some of
\* the starts may fail.
StartProviders ==
    /\ phase = "initialized"
    /\ \E failing \in SUBSET ConfiguredProviders :
           registry' = [p \in ConfiguredProviders |->
                           StartProvider(registry[p], p \in failing)]
    /\ phase' = "started"
    /\ UNCHANGED <<oracleCfg, marketMap, notOrchestrator>>

\* The market-map provider publishes a malformed map: it is rejected
\* wholesale and the previous map remains in force.
RejectUpdate ==
    /\ phase = "started"
    /\ UNCHANGED <<orchestratorVars, notOrchestrator>>

\* The market-map provider publishes a new map, which is reconciled provider
\* by provider; some of the starts may fail.
Reconcile ==
    /\ phase = "started"
    /\ \E mm \in MarketMaps, failing \in SUBSET ConfiguredProviders :
           /\ marketMap' = mm
           /\ registry' = [p \in ConfiguredProviders |->
                              ReconcileProvider(registry[p], p, mm, oracleCfg,
                                                p \in failing)]
    /\ UNCHANGED <<oracleCfg, phase, notOrchestrator>>

OrchestratorNext ==
    \/ NewProviderOrchestrator
    \/ Initialize
    \/ StartProviders
    \/ RejectUpdate
    \/ Reconcile

\* ---------------------------------------------------------------- runOracle

\* The signals runOracle asks to be notified of.
Signals == {"SIGINT", "SIGTERM"}

\* sigs := make(chan os.Signal, 1)
SigsCapacity == 1

\* runOracle has not been called.
InitRun ==
    /\ runPc = "call"
    /\ sigs = <<>>
    /\ rootCtx = "none"
    /\ watcher = "none"
    /\ orch = "none"
    /\ srv = "none"
    /\ metricsEnabled = FALSE
    /\ ps = "none"
    /\ runPprof = FALSE
    /\ profiler = "none"
    /\ runErr = "none"
    /\ arrived = FALSE

\* A variant of Deferred that forgets the orchestrator.
DeferredWithoutStop(o) == o

\* defer orch.Stop(), once orch.Start has succeeded.
Deferred(o) == IF o = "started" THEN "stopped" ELSE o

\* runOracle returns: the deferred calls run, orch.Stop() if it was deferred,
\* then cancel().
RunReturns(error) ==
    /\ runPc' = "returned"
    /\ runErr' = error
    /\ orch' = Deferred(orch)
    /\ rootCtx' = "cancelled"

\* SIGINT or SIGTERM arrives: it is put in the channel if there is room and
\* dropped otherwise.
Signal ==
    /\ runPc \notin {"call", "returned"}
    /\ \E sig \in Signals :
           sigs' = IF Len(sigs) < SigsCapacity THEN Append(sigs, sig) ELSE sigs
    /\ arrived' = (arrived \/ orch = "started")
    /\ UNCHANGED <<runPc, rootCtx, watcher, orch, srv, metricsEnabled, ps, runPprof,
                   profiler, runErr, notRun>>

\* signal.Notify, context.WithCancel, defer cancel(), the flags and the
\* logger.
Notify ==
    /\ runPc = "call"
    /\ runPc' = "config"
    /\ rootCtx' = "live"
    /\ runPprof' \in BOOLEAN
    /\ UNCHANGED <<sigs, watcher, orch, srv, metricsEnabled, ps, profiler, runErr, arrived,
                   notRun>>

\* The configurations are read and the aggregator and the orchestrator
\* created; each of these steps may fail, and runOracle then returns the error.
Configure ==
    /\ runPc = "config"
    /\ \/ /\ runPc' = "orch.Start"
          /\ orch' = "created"
          /\ metricsEnabled' \in BOOLEAN
          /\ UNCHANGED <<rootCtx, runErr>>
       \/ /\ \E error \in {"failed to read oracle config file",
                              "failed to overwrite market endpoint",
                              "failed to read market config file",
                              "failed to create data aggregator",
                              "failed to create provider orchestrator"} :
                 RunReturns(error)
          /\ UNCHANGED metricsEnabled
    /\ UNCHANGED <<sigs, watcher, srv, ps, runPprof, profiler, arrived, notRun>>

\* orch.Start(ctx), and defer orch.Stop() when it succeeded.
StartOrchestrator ==
    /\ runPc = "orch.Start"
    /\ \/ /\ orch' = "started"
          /\ runPc' = "oracle.New"
          /\ UNCHANGED <<rootCtx, runErr>>
       \/ /\ orch' = "failed"
          /\ runPc' = "returned"
          /\ runErr' = "failed to start provider orchestrator"
          /\ rootCtx' = "cancelled"
    /\ UNCHANGED <<sigs, watcher, srv, metricsEnabled, ps, runPprof, profiler, arrived,
                   notRun>>

\* oracle.New(oracleOpts...) and oracleserver.NewOracleServer(orc, logger)
NewOracle ==
    /\ runPc = "oracle.New"
    /\ \/ /\ runPc' = "go"
          /\ UNCHANGED <<rootCtx, orch, runErr>>
       \/ RunReturns("failed to create oracle")
    /\ UNCHANGED <<sigs, watcher, srv, metricsEnabled, ps, runPprof, profiler, arrived,
                   notRun>>

\* go func() { <-sigs; cancel() }()
WatchSignals ==
    /\ runPc = "go"
    /\ runPc' = "metrics"
    /\ watcher' = "waiting"
    /\ UNCHANGED <<sigs, rootCtx, orch, srv, metricsEnabled, ps, runPprof, profiler,
                   runErr, arrived, notRun>>

\* A variant of Cancel that leaves the context as it is.
CancelNothing(c) == c

\* cancel()
Cancel(c) == "cancelled"

\* The goroutine receives a signal from sigs and cancels the root context.
ReceiveSignal ==
    /\ runPc # "returned"
    /\ watcher = "waiting"
    /\ sigs # <<>>
    /\ sigs' = Tail(sigs)
    /\ rootCtx' = Cancel(rootCtx)
    /\ watcher' = "done"
    /\ UNCHANGED <<runPc, orch, srv, metricsEnabled, ps, runPprof, profiler, runErr,
                   arrived, notRun>>

\* if cfg.Metrics.Enabled: the prometheus server is created and started, with
\* a goroutine that closes it when the context is done.
StartMetrics ==
    /\ runPc = "metrics"
    /\ IF metricsEnabled
       THEN \/ /\ ps' = "running"
               /\ runPc' = "pprof"
               /\ UNCHANGED <<rootCtx, orch, runErr>>
            \/ /\ RunReturns("failed to start prometheus server")
               /\ UNCHANGED ps
       ELSE /\ runPc' = "pprof"
            /\ UNCHANGED <<rootCtx, orch, runErr, ps>>
    /\ UNCHANGED <<sigs, watcher, srv, metricsEnabled, runPprof, profiler, arrived, notRun>>

\* <-ctx.Done(); ps.Close()
CloseMetrics ==
    /\ runPc # "returned"
    /\ ps = "running"
    /\ rootCtx = "cancelled"
    /\ ps' = "closed"
    /\ UNCHANGED <<runPc, sigs, rootCtx, watcher, orch, srv, metricsEnabled, runPprof,
                   profiler, runErr, arrived, notRun>>

\* if runPprof: the pprof server is started in a goroutine.
StartPprof ==
    /\ runPc = "pprof"
    /\ runPc' = "StartServer"
    /\ profiler' = IF runPprof THEN "running" ELSE profiler
    /\ UNCHANGED <<sigs, rootCtx, watcher, orch, srv, metricsEnabled, ps, runPprof, runErr,
                   arrived, notRun>>

\* srv.StartServer(ctx, cfg.Host, cfg.Port) is called and serves.
StartServer ==
    /\ runPc = "StartServer"
    /\ runPc' = "serving"
    /\ srv' = "serving"
    /\ UNCHANGED <<sigs, rootCtx, watcher, orch, metricsEnabled, ps, runPprof, profiler,
                   runErr, arrived, notRun>>

\* The server closes once the context it serves under is cancelled.
ServerCloses ==
    /\ runPc = "serving"
    /\ srv = "serving"
    /\ rootCtx = "cancelled"
    /\ srv' = "closed"
    /\ UNCHANGED <<runPc, sigs, rootCtx, watcher, orch, metricsEnabled, ps, runPprof,
                   profiler, runErr, arrived, notRun>>

\* The server fails on its own, for instance on the address it is to listen
\* on.
ServerFails ==
    /\ runPc = "serving"
    /\ srv = "serving"
    /\ srv' = "closed"
    /\ UNCHANGED <<runPc, sigs, rootCtx, watcher, orch, metricsEnabled, ps, runPprof,
                   profiler, runErr, arrived, notRun>>

\* StartServer has returned, its error if any is logged: return nil.
ReturnAfterServing ==
    /\ runPc = "serving"
    /\ srv = "closed"
    /\ RunReturns("nil")
    /\ UNCHANGED <<sigs, watcher, srv, metricsEnabled, ps, runPprof, profiler, arrived,
                   notRun>>

RunNext ==
    \/ Signal
    \/ Notify
    \/ Configure
    \/ StartOrchestrator
    \/ NewOracle
    \/ WatchSignals
    \/ ReceiveSignal
    \/ StartMetrics
    \/ CloseMetrics
    \/ StartPprof
    \/ StartServer
    \/ ServerCloses
    \/ ServerFails
    \/ ReturnAfterServing

\* The steps of runOracle itself and of the goroutines it starts are taken
\* when they can be; signals and failures of the server are not.
RunFairness ==
    /\ WF_vars(Notify)
    /\ WF_vars(Configure)
    /\ WF_vars(StartOrchestrator)
    /\ WF_vars(NewOracle)
    /\ WF_vars(WatchSignals)
    /\ WF_vars(ReceiveSignal)
    /\ WF_vars(StartMetrics)
    /\ WF_vars(CloseMetrics)
    /\ WF_vars(StartPprof)
    /\ WF_vars(StartServer)
    /\ WF_vars(ServerCloses)
    /\ WF_vars(ReturnAfterServing)

\* ------------------------------------------------- the source of the config

DefaultLegacyConfigPath == "./oracle.json"

\* The values of a path flag: unset, or a path.
FlagValues == {"", DefaultLegacyConfigPath, "./config.json", "/etc/oracle/legacy.json"}

\* os.Stat(DefaultLegacyConfigPath) on a file system: with a file there it
\* returns nil, or fails for a reason of its own (a directory on the way
\* that may not be searched); with none it returns a not-exist error, or
\* fails for such a reason too.
StatOutcomes ==
    {o \in [exists : BOOLEAN, err : {"nil", "not exist", "permission denied"}] :
        /\ o.err = "nil" => o.exists
        /\ o.err = "not exist" => ~o.exists}

\* os.IsNotExist(err)
IsNotExist(error) == error = "not exist"

\* legacyOracleConfigExists: _, err := os.Stat(...); return !os.IsNotExist(err)
legacyOracleConfigExists(o) == ~IsNotExist(o.err)

\* useLegacyOracleConfig, on the two flags and the file system.
useLegacyOracleConfig(cfgPath, legacyCfgPath, o) ==
    IF cfgPath # "" THEN [path |-> cfgPath, legacy |-> FALSE]
    ELSE IF legacyCfgPath # "" THEN [path |-> legacyCfgPath, legacy |-> TRUE]
    ELSE IF legacyOracleConfigExists(o) THEN [path |-> DefaultLegacyConfigPath, legacy |-> TRUE]
    ELSE [path |-> "", legacy |-> FALSE]

NoSource == [reader |-> "none", path |-> ""]

\* The flags are unset and there is no file at the default path.
InitConfig ==
    /\ cfgPc = "flags"
    /\ oracleCfgPath = ""
    /\ legacyOracleCfgPath = ""
    /\ stat = [exists |-> FALSE, err |-> "not exist"]
    /\ legacyPath = ""
    /\ legacyConfigInUse = FALSE
    /\ cfgSource = NoSource

\* legacyPath, legacyConfigInUse := useLegacyOracleConfig(logger)
ChooseConfig ==
    /\ cfgPc = "flags"
    /\ LET u == useLegacyOracleConfig(oracleCfgPath, legacyOracleCfgPath, stat)
       IN  /\ legacyPath' = u.path
           /\ legacyConfigInUse' = u.legacy
    /\ cfgPc' = "chosen"
    /\ UNCHANGED <<notConfig, oracleCfgPath, legacyOracleCfgPath, stat, cfgSource>>

\* runOracle reads the legacy config from the returned path, or the config
\* with overrides from --oracle-config.
ReadConfig ==
    /\ cfgPc = "chosen"
    /\ cfgSource' = IF legacyConfigInUse
                    THEN [reader |-> "GetLegacyOracleConfig", path |-> legacyPath]
                    ELSE [reader |-> "ReadOracleConfigWithOverrides", path |-> oracleCfgPath]
    /\ cfgPc' = "read"
    /\ UNCHANGED <<notConfig, oracleCfgPath, legacyOracleCfgPath, stat, legacyPath,
                   legacyConfigInUse>>

ConfigNext == ChooseConfig \/ ReadConfig

\* ------------------------------------------------ MarketConfig.ValidateBasic

\* Strings are sequences of characters.
Letters == {"a", "A", "b"}

Slash == "/"

\* strings.ToUpper on one character and on a string.
ToUpperChar(ch) == IF ch = "a" THEN "A" ELSE IF ch = "b" THEN "B" ELSE ch

ToUpper(str) == [i \in 1..Len(str) |-> ToUpperChar(str[i])]

\* The keys of the map: base/quote in any case, and strings that are no pair.
KeyStrings ==
    {<<x, Slash, y>> : x \in Letters, y \in Letters}
        \cup {<<"a", "b">>, <<Slash, "a">>, <<"a", Slash>>}

\* oracletypes.CurrencyPairFromString: two symbols around one slash, each
\* non-empty, normalized to upper case.
CurrencyPairFromString(str) ==
    LET slashes == {i \in 1..Len(str) : str[i] = Slash}
    IN  IF Cardinality(slashes) # 1
        THEN [err |-> "incorrectly formatted CurrencyPair", Base |-> <<>>, Quote |-> <<>>]
        ELSE LET i == CHOOSE j \in slashes : TRUE
                 base == ToUpper(SubSeq(str, 1, i - 1))
                 quote == ToUpper(SubSeq(str, i + 1, Len(str)))
             IN  IF base = <<>> \/ quote = <<>>
                 THEN [err |-> "empty symbol", Base |-> base, Quote |-> quote]
                 ELSE [err |-> "nil", Base |-> base, Quote |-> quote]

\* CurrencyPair.ToString: BASE/QUOTE
CurrencyPairToString(cp) == cp.Base \o <<Slash>> \o cp.Quote

Tickers == {"", "BTCUSDT", "ETHUSDT"}

\* CurrencyPairMarketConfig: the ticker the provider knows the pair by.
CurrencyPairMarketConfigs == [Ticker : Tickers]

\* CurrencyPairMarketConfig.ValidateBasic
TickerIsEmpty(marketConfig) == marketConfig.Ticker = ""

\* The maps a market config can hold.
CurrencyPairMaps ==
    UNION {[keys -> CurrencyPairMarketConfigs] :
              keys \in {d \in SUBSET KeyStrings : Cardinality(d) <= MaxEntries}}

NoMap == [k \in {} |-> [Ticker |-> ""]]

\* delete(m, cpStr); m[key] = marketConfig
Rekey(m, cpStr, key, marketConfig) ==
    [k \in (DOMAIN m \ {cpStr}) \cup {key} |-> IF k = key THEN marketConfig ELSE m[k]]

\* No market config is being validated.
InitMarketConfig ==
    /\ mcPc = "idle"
    /\ mcName = ""
    /\ marketConfigs = NoMap
    /\ original = NoMap
    /\ pending = {}
    /\ created = {}
    /\ mcErr = "none"

\* ValidateBasic is called: the name must not be empty, then the loop starts.
CheckName ==
    /\ mcPc = "call"
    /\ IF mcName = ""
       THEN /\ mcPc' = "returned"
            /\ mcErr' = "name cannot be empty"
            /\ UNCHANGED pending
       ELSE /\ mcPc' = "loop"
            /\ pending' = DOMAIN marketConfigs
            /\ UNCHANGED mcErr
    /\ UNCHANGED <<notMarketConfig, mcName, marketConfigs, original, created>>

\* One turn of the range loop on an entry it has to produce or on one that
\* was created during the loop: a removed entry is not produced, a created
\* one may be.  Writing under a key that is in the map overwrites that entry;
\* writing under one that is not creates an entry.  A created entry has a
\* canonical key, so producing it writes it back as it is: the loop is
\* followed through one such turn per entry.
Iterate ==
    /\ mcPc = "loop"
    /\ \E cpStr \in (pending \cup created) \cap DOMAIN marketConfigs :
          LET cp == CurrencyPairFromString(cpStr)
              marketConfig == marketConfigs[cpStr]
          IN  IF cp.err # "nil"
              THEN /\ mcPc' = "returned"
                   /\ mcErr' = "currency pair is not formatted correctly"
                   /\ UNCHANGED <<marketConfigs, pending, created>>
              ELSE IF TickerIsEmpty(marketConfig)
              THEN /\ mcPc' = "returned"
                   /\ mcErr' = "market config is not formatted correctly"
                   /\ UNCHANGED <<marketConfigs, pending, created>>
              ELSE /\ marketConfigs' = Rekey(marketConfigs, cpStr, CurrencyPairToString(cp), marketConfig)
                   /\ pending' = pending \ {cpStr}
                   /\ created' =
                          IF \/ CurrencyPairToString(cp) \in DOMAIN marketConfigs \ {cpStr}
                             \/ cpStr \in created
                          THEN created \ {cpStr}
                          ELSE (created \ {cpStr}) \cup {CurrencyPairToString(cp)}
                   /\ UNCHANGED <<mcPc, mcErr>>
    /\ UNCHANGED <<notMarketConfig, mcName, original>>

\* The loop has produced every entry it has to: return nil.
ReturnNil ==
    /\ mcPc = "loop"
    /\ pending \cap DOMAIN marketConfigs = {}
    /\ mcPc' = "returned"
    /\ mcErr' = "nil"
    /\ UNCHANGED <<notMarketConfig, mcName, marketConfigs, original, pending, created>>

MarketConfigNext == CheckName \/ Iterate \/ ReturnNil

\* ---------------------------------- MsgRemoveMarketAuthorities.ValidateBasic

\* Address strings: two accounts in lower case, the first one also in upper
\* case, the empty string and a string that is no bech32.
AddressStrings == {"cosmos1a", "COSMOS1A", "cosmos1b", "", "cosmos-a"}

\* sdk.AccAddressFromBech32: the account an address string decodes to, or an
\* error.  A bech32 string is valid in lower case and in upper case.
AccAddressFromBech32(address) ==
    IF address = "" THEN [err |-> "empty address string is not allowed", account |-> "none"]
    ELSE IF address \in {"cosmos1a", "COSMOS1A"} THEN [err |-> "nil", account |-> "a"]
    ELSE IF address = "cosmos1b" THEN [err |-> "nil", account |-> "b"]
    ELSE [err |-> "decoding bech32 failed", account |-> "none"]

\* The lists of addresses of a message.
RECURSIVE AddressLists(_)
AddressLists(n) ==
    IF n = 0 THEN {<<>>}
    ELSE AddressLists(n - 1)
             \cup {Append(l, a) : l \in {k \in AddressLists(n - 1) : Len(k) = n - 1},
                                  a \in AddressStrings}

RemoveMessages == [Admin : AddressStrings, RemoveAddresses : AddressLists(MaxAddresses)]

NoMessage == [Admin |-> "", RemoveAddresses |-> <<>>]

\* The loop over m.RemoveAddresses from index i on, with the authorities
\* seen so far: a seen one is a duplicate, an unseen one must decode.
RECURSIVE CheckAuthorities(_, _, _)
CheckAuthorities(addresses, i, seenAuthorities) ==
    IF i > Len(addresses) THEN "nil"
    ELSE IF addresses[i] \in seenAuthorities THEN "duplicate address found"
    ELSE IF AccAddressFromBech32(addresses[i]).err # "nil"
    THEN "invalid market authority string"
    ELSE CheckAuthorities(addresses, i + 1, seenAuthorities \cup {addresses[i]})

\* A variant of RemoveMarketAuthoritiesValidateBasic that accepts an empty
\* list.
ValidateBasicAllowingNone(m) ==
    IF AccAddressFromBech32(m.Admin).err # "nil"
    THEN AccAddressFromBech32(m.Admin).err
    ELSE CheckAuthorities(m.RemoveAddresses, 1, {})

\* (m *MsgRemoveMarketAuthorities) ValidateBasic
RemoveMarketAuthoritiesValidateBasic(m) ==
    IF AccAddressFromBech32(m.Admin).err # "nil"
    THEN AccAddressFromBech32(m.Admin).err
    ELSE IF Len(m.RemoveAddresses) = 0
    THEN "addresses to remove cannot be nil"
    ELSE CheckAuthorities(m.RemoveAddresses, 1, {})

\* No message is being validated.
InitRemove ==
    /\ rmPc = "idle"
    /\ rmMsg = NoMessage
    /\ rmGiven = NoMessage
    /\ rmErr = "none"

\* ValidateBasic runs on the message; it reads it and writes nothing to it.
ValidateRemove ==
    /\ rmPc = "call"
    /\ rmErr' = RemoveMarketAuthoritiesValidateBasic(rmMsg)
    /\ rmPc' = "returned"
    /\ UNCHANGED <<notRemove, rmMsg, rmGiven>>

RemoveNext == ValidateRemove

Init ==
    /\ InitHandler /\ InitClient /\ InitAggregator /\ InitOrchestrator /\ InitRun
    /\ InitConfig /\ InitMarketConfig /\ InitRemove

\* ValidateBasic is called on some message.
InitMessage ==
    /\ InitHandler /\ InitClient /\ InitAggregator /\ InitOrchestrator /\ InitRun
    /\ InitConfig /\ InitMarketConfig
    /\ rmPc = "call"
    /\ rmMsg \in RemoveMessages
    /\ rmGiven = rmMsg
    /\ rmErr = "none"

RemoveSpec == InitMessage /\ [][RemoveNext]_vars

\* ValidateBasic is called on some market config.
InitValidation ==
    /\ InitHandler /\ InitClient /\ InitAggregator /\ InitOrchestrator /\ InitRun
    /\ InitConfig
    /\ mcPc = "call"
    /\ mcName \in {"", "binance"}
    /\ marketConfigs \in CurrencyPairMaps
    /\ original = marketConfigs
    /\ pending = {}
    /\ created = {}
    /\ mcErr = "none"
    /\ InitRemove

MarketConfigSpec == InitValidation /\ [][MarketConfigNext]_vars

\* The oracle is started with some flags on some file system.
InitFlags ==
    /\ InitHandler /\ InitClient /\ InitAggregator /\ InitOrchestrator /\ InitRun
    /\ cfgPc = "flags"
    /\ oracleCfgPath \in FlagValues
    /\ legacyOracleCfgPath \in FlagValues
    /\ stat \in StatOutcomes
    /\ legacyPath = ""
    /\ legacyConfigInUse = FALSE
    /\ cfgSource = NoSource
    /\ InitMarketConfig
    /\ InitRemove

ConfigSpec == InitFlags /\ [][ConfigNext]_vars

RunSpec == Init /\ [][RunNext]_vars

RunLiveSpec == RunSpec /\ RunFairness

OrchestratorSpec == Init /\ [][OrchestratorNext]_vars

\* ------------------------------------------------------ aggregation steps

\* The aggregator is handed provider prices.
InitAggregation ==
    /\ InitHandler
    /\ InitClient
    /\ InitOrchestrator
    /\ InitRun
    /\ InitConfig
    /\ InitMarketConfig
    /\ InitRemove
    /\ providerPrices \in AggregatedProviderPrices
    /\ step = "input"
    /\ prices = NoPrices
    /\ renamed = NoProviderPrices
    /\ pricesAgain = NoPrices

\* prices := medianFn(providerPrices), the provider map iterated in some order.
Aggregate ==
    /\ step = "input"
    /\ \E order \in IterationOrders :
           prices' = ComputeMedian(providerPrices, order)
    /\ step' = "aggregated"
    /\ UNCHANGED <<providerPrices, renamed, pricesAgain, notAggregator>>

\* The same prices are aggregated once more, under other provider names and
\* in another iteration order.
AggregateAgain ==
    /\ step = "aggregated"
    /\ \E order \in IterationOrders, pi \in Renamings :
           /\ renamed' = Rename(providerPrices, pi)
           /\ pricesAgain' = ComputeMedian(Rename(providerPrices, pi), order)
    /\ step' = "again"
    /\ UNCHANGED <<providerPrices, prices, notAggregator>>

AggregatorNext ==
    \/ Aggregate
    \/ AggregateAgain

AggregatorSpec == InitAggregation /\ [][AggregatorNext]_vars

Goto(g, where) == cpc' = [cpc EXCEPT ![g] = where]

\* What a method hands back to goroutine g, with whether the call went to the
\* remote and whether some Start had succeeded by then.
Return(g, op, how, response, error, remote) ==
    result' = [result EXCEPT ![g] = [op |-> op, outcome |-> how, resp |-> response,
                                     err |-> error, remote |-> remote,
                                     started |-> started]]

\* A goroutine calls a method: what the previous call left behind is gone.
Enter(g) ==
    /\ cpc[g] = "idle"
    /\ inflight' = [inflight EXCEPT ![g] = NoCall]
    /\ derived' = [derived EXCEPT ![g] = NoContextDerived]

\* A variant of EnterLocked that does not wait for the mutex.
EnterWithoutWaiting(g, then) ==
    /\ Enter(g)
    /\ mtx' = g
    /\ Goto(g, then)
    /\ result' = [result EXCEPT ![g] = NoReturn]

\* c.mtx.Lock() as the first statement of a method: the call goes on once the
\* mutex is free.
EnterLocked(g, then) ==
    /\ Enter(g)
    /\ mtx = 0
    /\ mtx' = g
    /\ Goto(g, then)
    /\ result' = [result EXCEPT ![g] = NoReturn]

\* Start is called: grpc.Dial with WithBlock returns a connection or an error.
StartDial(g) ==
    /\ Enter(g)
    /\ \/ /\ Len(conns) < MaxDials
          /\ conns' = Append(conns, "open")
          /\ dialed' = [dialed EXCEPT ![g] = Len(conns) + 1]
          /\ started' = TRUE
          /\ Goto(g, "start:lock")
          /\ result' = [result EXCEPT ![g] = NoReturn]
       \/ /\ Return(g, "Start", "return", "nil", "failed to dial oracle gRPC server", FALSE)
          /\ Goto(g, "idle")
          /\ UNCHANGED <<conns, dialed, started>>
    /\ UNCHANGED <<notClient, client, conn, mtx>>

\* c.mtx.Lock()
StartLock(g) ==
    /\ cpc[g] = "start:lock"
    /\ mtx = 0
    /\ mtx' = g
    /\ Goto(g, "start:client")
    /\ UNCHANGED <<notClient, client, conn, conns, dialed, derived, inflight, result, started>>

\* A variant of StartSetClient that lets go of the mutex once the client is
\* set.
StartSetClientAndUnlock(g) ==
    /\ cpc[g] = "start:client"
    /\ client' = dialed[g]
    /\ mtx' = 0
    /\ Goto(g, "start:conn")
    /\ UNCHANGED <<notClient, conn, conns, dialed, derived, inflight, result, started>>

\* c.client = service.NewOracleClient(conn)
StartSetClient(g) ==
    /\ cpc[g] = "start:client"
    /\ client' = dialed[g]
    /\ Goto(g, "start:conn")
    /\ UNCHANGED <<notClient, conn, mtx, conns, dialed, derived, inflight, result, started>>

\* c.conn = conn
StartSetConn(g) ==
    /\ cpc[g] = "start:conn"
    /\ conn' = dialed[g]
    /\ Goto(g, "start:unlock")
    /\ UNCHANGED <<notClient, client, mtx, conns, dialed, derived, inflight, result, started>>

\* c.mtx.Unlock(); return nil
StartReturn(g) ==
    /\ cpc[g] = "start:unlock"
    /\ mtx' = 0
    /\ dialed' = [dialed EXCEPT ![g] = 0]
    /\ Return(g, "Start", "return", "nil", "nil", FALSE)
    /\ Goto(g, "idle")
    /\ UNCHANGED <<notClient, client, conn, conns, derived, inflight, started>>

\* Stop is called: c.mtx.Lock()
StopLock(g) ==
    /\ EnterLocked(g, "stop:close")
    /\ UNCHANGED <<notClient, client, conn, conns, dialed, started>>

\* A variant of StopClose that also forgets the client handle.
StopCloseAndReset(g) ==
    /\ cpc[g] = "stop:close"
    /\ mtx' = 0
    /\ client' = 0
    /\ IF conn = 0
       THEN /\ Return(g, "Stop", "panic", "nil", "nil", FALSE)
            /\ UNCHANGED conns
       ELSE IF conns[conn] = "closed"
       THEN /\ Return(g, "Stop", "return", "nil", "grpc: the client connection is closing", FALSE)
            /\ UNCHANGED conns
       ELSE /\ Return(g, "Stop", "return", "nil", "nil", FALSE)
            /\ conns' = [conns EXCEPT ![conn] = "closed"]
    /\ Goto(g, "idle")
    /\ UNCHANGED <<notClient, conn, dialed, derived, inflight, started>>

\* return c.conn.Close(), with the deferred Unlock: Close of a nil connection
\* dereferences nil, Close of a closed one returns an error.
StopClose(g) ==
    /\ cpc[g] = "stop:close"
    /\ mtx' = 0
    /\ IF conn = 0
       THEN /\ Return(g, "Stop", "panic", "nil", "nil", FALSE)
            /\ UNCHANGED conns
       ELSE IF conns[conn] = "closed"
       THEN /\ Return(g, "Stop", "return", "nil", "grpc: the client connection is closing", FALSE)
            /\ UNCHANGED conns
       ELSE /\ Return(g, "Stop", "return", "nil", "nil", FALSE)
            /\ conns' = [conns EXCEPT ![conn] = "closed"]
    /\ Goto(g, "idle")
    /\ UNCHANGED <<notClient, client, conn, dialed, derived, inflight, started>>

\* Prices is called: c.mtx.Lock()
PricesLock(g) ==
    /\ EnterLocked(g, "prices:check")
    /\ UNCHANGED <<notClient, client, conn, conns, dialed, started>>

\* A variant of ClientIsNil that never finds the client nil.
ClientNeverNil(c) == FALSE

\* c.client == nil
ClientIsNil(c) == c = 0

\* ctx, cancel := context.WithTimeout(ctx, c.timeout); then the nil check: a
\* nil client gives the error, otherwise the remote call is issued under the
\* derived context with WaitForReady(true).
PricesCheck(g) ==
    /\ cpc[g] = "prices:check"
    /\ \E parent \in CallerDeadlines :
           derived' = [derived EXCEPT ![g] =
                          [live |-> TRUE,
                           deadline |-> WithTimeout(parent, ClientTimeout),
                           cancelled |-> FALSE]]
    /\ IF ClientIsNil(client)
       THEN /\ Return(g, "Prices", "pending", "nil", "oracle client not started", FALSE)
            /\ Goto(g, "prices:return")
            /\ UNCHANGED inflight
       ELSE /\ inflight' = [inflight EXCEPT ![g] =
                               [issued |-> TRUE, conn |-> client,
                                deadline |-> derived'[g].deadline,
                                waitForReady |-> TRUE]]
            /\ Goto(g, "prices:remote")
            /\ UNCHANGED result
    /\ UNCHANGED <<notClient, client, conn, mtx, conns, dialed, started>>

\* c.client.Prices(ctx, req, grpc.WaitForReady(true)) comes back: a call on a
\* nil client dereferences nil; a call on a closed connection fails; a call
\* on an open one returns the response or fails (deadline, server error).
PricesRemote(g) ==
    /\ cpc[g] = "prices:remote"
    /\ IF inflight[g].conn = 0
       THEN Return(g, "Prices", "panic", "nil", "nil", inflight[g].issued)
       ELSE \/ /\ conns[inflight[g].conn] = "open"
               /\ Return(g, "Prices", "pending", "prices", "nil", inflight[g].issued)
            \/ /\ conns[inflight[g].conn] = "open"
               /\ Return(g, "Prices", "pending", "nil", "context deadline exceeded", inflight[g].issued)
            \/ /\ conns[inflight[g].conn] = "closed"
               /\ Return(g, "Prices", "pending", "nil", "grpc: the client connection is closing", inflight[g].issued)
    /\ Goto(g, "prices:return")
    /\ UNCHANGED <<notClient, client, conn, mtx, conns, dialed, derived, inflight, started>>

\* The deferred cancel() and Unlock() run and Prices returns.
PricesReturn(g) ==
    /\ cpc[g] = "prices:return"
    /\ derived' = [derived EXCEPT ![g] = [@ EXCEPT !.cancelled = TRUE]]
    /\ mtx' = 0
    /\ result' = [result EXCEPT ![g] = [@ EXCEPT !.outcome = IF @ = "pending" THEN "return" ELSE @,
                                            !.started = started]]
    /\ Goto(g, "idle")
    /\ UNCHANGED <<notClient, client, conn, conns, dialed, inflight, started>>

ClientNext ==
    \/ \E g \in Callers : StartDial(g)
    \/ \E g \in Callers : StartLock(g)
    \/ \E g \in Callers : StartSetClient(g)
    \/ \E g \in Callers : StartSetConn(g)
    \/ \E g \in Callers : StartReturn(g)
    \/ \E g \in Callers : StopLock(g)
    \/ \E g \in Callers : StopClose(g)
    \/ \E g \in Callers : PricesLock(g)
    \/ \E g \in Callers : PricesCheck(g)
    \/ \E g \in Callers : PricesRemote(g)
    \/ \E g \in Callers : PricesReturn(g)

ClientSpec == Init /\ [][ClientNext]_vars

Arrive(stage, c, r, from) ==
    /\ pc' = stage
    /\ ctx' = c
    /\ req' = r
    /\ recv' = r
    /\ resp' = NilResponse
    /\ err' = "nil"
    /\ outcome' = "none"
    /\ calls' = <<>>
    /\ proposed' = from
    /\ UNCHANGED notHandler

Leave(stage, after) ==
    /\ pc' = stage
    /\ req' = after.req
    /\ resp' = after.resp
    /\ err' = after.err
    /\ outcome' = after.outcome
    /\ calls' = after.calls
    /\ UNCHANGED <<ctx, recv, proposed, notHandler>>

\* Consensus asks this validator, the proposer, for a proposal.
RequestPrepare ==
    /\ pc = "idle"
    /\ \E c \in Contexts, r \in PrepareRequests : Arrive("prepare", c, r, NotProposed)

\* The prepare handler runs.
PrepareProposal ==
    /\ pc = "prepare"
    /\ \E accepts \in BOOLEAN, b \in PrepareBehaviours :
           Leave("prepared", PrepareProposalHandler(ctx, req, accepts, b))

\* Consensus asks this validator to verify a proposal of any content.
RequestProcess ==
    /\ pc = "idle"
    /\ \E c \in Contexts, r \in ProcessRequests : Arrive("process", c, r, NotProposed)

\* The proposal just built reaches a peer at the same height, which is asked
\* to verify it.  Kept beside the request: the height and the commit info the
\* proposer built it from, the transactions of the proposer's request, and
\* whether the proposer's downstream handler returned its input unchanged,
\* and whether it returned only transactions of its input, none duplicated.
DeliverProposal ==
    /\ pc = "prepared"
    /\ outcome = "return"
    /\ err = "nil"
    /\ Arrive("process", ctx,
              [isNil |-> FALSE, Height |-> recv.Height, Txs |-> resp.Txs,
               LocalLastCommit |-> ZeroInfo],
              [built |-> TRUE, Height |-> recv.Height, Info |-> recv.LocalLastCommit,
               Inner |-> recv.Txs,
               kept |-> \A i \in 1..Len(calls) :
                           calls[i].fn = "prepare" => calls[i].out.Txs = calls[i].txs,
               selected |-> \A i \in 1..Len(calls) :
                               calls[i].fn = "prepare"
                                   => SelectedFrom(calls[i].out.Txs, calls[i].txs)])

\* The process handler runs.
ProcessProposal ==
    /\ pc = "process"
    /\ \E accepts \in BOOLEAN, b \in ProcessBehaviours :
           Leave("processed", ProcessProposalHandler(ctx, req, accepts, b))

\* The consensus thread is done with the call.
Finish ==
    /\ pc \in {"prepared", "processed"}
    /\ Arrive("idle", NoContext, NilRequest, NotProposed)

Next ==
    \/ RequestPrepare
    \/ PrepareProposal
    \/ RequestProcess
    \/ DeliverProposal
    \/ ProcessProposal
    \/ Finish

Spec == Init /\ [][Next]_vars

\* ------------------------------------------------------------------- claims

CallsTo(fn) == SelectSeq(calls, LAMBDA c : c.fn = fn)

Prepared == pc = "prepared" /\ ~recv.isNil

Processed == pc = "processed" /\ ~recv.isNil

Enabled == ctx.voteExtensionsEnabled

\* E: the marshaled bytes of the request's LocalLastCommit.
E == Marshal(recv.LocalLastCommit).bz

\* What the downstream prepare handler returned, when it was called.
Downstream == CallsTo("prepare")[1].out.Txs

\* C1: with vote extensions enabled, whenever PrepareProposal returns without
\* error, the returned proposal has a first transaction and it is E, whatever
\* the downstream prepare handler did with the injected bytes.
C1_FirstTxIsCommitInfo ==
    (Prepared /\ Enabled /\ outcome = "return" /\ err = "nil")
        => /\ ~resp.isNil
           /\ Len(resp.Txs) >= 1
           /\ resp.Txs[1] = E

\* C1 witness: a proposal returned after the downstream handler gave back a
\* non-empty list whose head is not E.
C1_Witness ==
    /\ Prepared /\ Enabled /\ outcome = "return" /\ err = "nil"
    /\ Len(Downstream) >= 1
    /\ Downstream[1] # E
    /\ resp.Txs[1] = E

\* The peer's validator gives the proposer's verdict (acceptance) for the
\* height and the commit info the proposal was built from.
SameVerdict ==
    \A i \in 1..Len(calls) :
        (calls[i].fn = "validate" /\ calls[i].height = proposed.Height
            /\ calls[i].info = proposed.Info) => calls[i].ret = "nil"

RoundTrip == Processed /\ proposed.built /\ Enabled /\ SameVerdict

\* C2 as stated: a proposal built by PrepareProposal (vote extensions enabled,
\* no error) is always accepted by ProcessProposal on a peer whose validator
\* gives the same verdict.
C2_AlwaysAccepted ==
    RoundTrip => (outcome = "return" /\ ~resp.isNil /\ resp.Status = "ACCEPT")

\* C2 amended: on such a peer the built proposal passes every check of
\* ProcessProposal itself: its first transaction unmarshals to the commit info
\* the proposer marshaled, it is validated once for the proposer's height and
\* found valid, and the downstream process handler is called once on the rest;
\* ProcessProposal returns that handler's verdict, so the proposal is accepted
\* exactly when the downstream process handler accepts it.
C2_RoundTripReachesDownstream ==
    RoundTrip =>
        /\ outcome = "return"
        /\ Unmarshal(recv.Txs[1]) = [info |-> proposed.Info, err |-> "nil"]
        /\ CallsTo("validate") = <<CallValidate(proposed.Height, proposed.Info, "nil")>>
        /\ Len(CallsTo("process")) = 1
        /\ CallsTo("process")[1].txs = Tail(recv.Txs)
        /\ resp = CallsTo("process")[1].out
        /\ err = CallsTo("process")[1].ret

\* C2 witness: a built proposal with a vote in its commit info and a
\* transaction behind it, accepted by the peer.
C2_Witness ==
    /\ RoundTrip
    /\ proposed.Info.Votes # <<>>
    /\ Len(recv.Txs) >= 2
    /\ ~resp.isNil
    /\ resp.Status = "ACCEPT"

Accepted == outcome = "return" /\ ~resp.isNil /\ resp.Status = "ACCEPT"

\* C3: with vote extensions enabled, a proposal for which ProcessProposal
\* returns ACCEPT has a first transaction, that transaction unmarshals as a
\* commit info, and the validator was asked about that commit info at the
\* request's height and accepted it.
C3_AcceptedWasValidated ==
    (Processed /\ Enabled /\ Accepted)
        => /\ Len(recv.Txs) >= 1
           /\ Unmarshal(recv.Txs[1]).err = "nil"
           /\ \E i \in 1..Len(calls) :
                 calls[i] = CallValidate(recv.Height, Unmarshal(recv.Txs[1]).info, "nil")

\* C3 witness: an accepted proposal that did not come from PrepareProposal.
C3_Witness ==
    /\ Processed /\ Enabled /\ Accepted
    /\ ~proposed.built
    /\ Len(recv.Txs) = 2
    /\ Unmarshal(recv.Txs[1]).info.Votes # <<>>

\* C4: with vote extensions enabled, ProcessProposal on a request without
\* transactions returns REJECT with the error "missing commit info", and
\* calls neither the validator nor the downstream process handler.
C4_MissingCommitInfo ==
    (Processed /\ Enabled /\ recv.Txs = <<>>)
        => /\ outcome = "return"
           /\ resp = Verdict("REJECT")
           /\ err = "missing commit info"
           /\ CallsTo("unmarshal") = <<>>
           /\ CallsTo("validate") = <<>>
           /\ CallsTo("process") = <<>>

\* C4 witness: a request without transactions was processed and rejected.
C4_Witness ==
    /\ Processed /\ Enabled /\ recv.Txs = <<>>
    /\ resp.Status = "REJECT"
    /\ calls = <<CallEnabled(ctx)>>

\* The first transaction unmarshaled and the validator accepted it.
Validated ==
    /\ Len(recv.Txs) >= 1
    /\ Unmarshal(recv.Txs[1]).err = "nil"
    /\ \E i \in 1..Len(calls) : calls[i].fn = "validate" /\ calls[i].ret = "nil"

\* C5: with vote extensions enabled and Txs[0] passing unmarshal and
\* validation, ProcessProposal calls the downstream process handler exactly
\* once, with the request's list minus its first element, and returns that
\* handler's response and error as they are.
C5_StripAndDelegate ==
    (Processed /\ Enabled /\ Validated)
        => /\ outcome = "return"
           /\ Len(CallsTo("process")) = 1
           /\ CallsTo("process")[1].txs = Tail(recv.Txs)
           /\ req.Txs = Tail(recv.Txs)
           /\ resp = CallsTo("process")[1].out
           /\ err = CallsTo("process")[1].ret

\* C5 witness: two transactions behind the commit info, and a downstream
\* handler that failed without a response.
C5_Witness ==
    /\ Processed /\ Enabled /\ Validated
    /\ Len(recv.Txs) = 3
    /\ recv.Txs[2] # recv.Txs[3]
    /\ resp.isNil
    /\ err = "process failed"

\* The validator accepted the local commit of the prepare request.
LocalCommitValid ==
    \E i \in 1..Len(calls) : calls[i].fn = "validate" /\ calls[i].ret = "nil"

\* C6: with vote extensions enabled and a valid local commit, the downstream
\* prepare handler is called with E followed by the request's transactions in
\* their order; if it returns its input unchanged the final proposal is that
\* same list; and ProcessProposal on such a proposal hands the proposer's
\* request transactions, and nothing else, to the downstream process handler.
C6_InjectThenStrip ==
    /\ (Prepared /\ Enabled /\ LocalCommitValid)
          => /\ Len(CallsTo("prepare")) = 1
             /\ CallsTo("prepare")[1].txs = <<E>> \o recv.Txs
             /\ (outcome = "return" /\ err = "nil" /\ Downstream = CallsTo("prepare")[1].txs)
                   => resp.Txs = <<E>> \o recv.Txs
    /\ (Processed /\ Enabled /\ proposed.built /\ proposed.kept)
          => /\ recv.Txs = <<Marshal(proposed.Info).bz>> \o proposed.Inner
             /\ \A i \in 1..Len(calls) :
                   calls[i].fn = "process" => calls[i].txs = proposed.Inner
             /\ LocalCommitValid => Len(CallsTo("process")) = 1

\* C6 witness: the proposal [E, t1, t2] built from inner transactions
\* [t1, t2] was processed and [t1, t2] reached the downstream process handler.
C6_Witness ==
    /\ Processed /\ Enabled /\ proposed.built /\ proposed.kept
    /\ proposed.Inner = <<<<7>>, <<9>>>>
    /\ recv.Txs = <<Marshal(proposed.Info).bz, <<7>>, <<9>>>>
    /\ Len(CallsTo("process")) = 1
    /\ CallsTo("process")[1].txs = <<<<7>>, <<9>>>>

ValidationFailed ==
    \E i \in 1..Len(calls) : calls[i].fn = "validate" /\ calls[i].ret # "nil"

\* C7: with vote extensions enabled, if the validation of the local commit
\* fails, PrepareProposal returns an empty transaction list together with the
\* validation error, the downstream prepare handler is not called, and the
\* request's transactions are as they were.
C7_ValidationFailure ==
    (Prepared /\ Enabled /\ ValidationFailed)
        => /\ outcome = "return"
           /\ ~resp.isNil
           /\ resp.Txs = <<>>
           /\ err = CallsTo("validate")[1].ret
           /\ err # "nil"
           /\ CallsTo("prepare") = <<>>
           /\ req = recv

\* C7 witness: the validation of a request with transactions failed.
C7_Witness ==
    /\ Prepared /\ Enabled /\ ValidationFailed
    /\ Len(recv.Txs) = 2
    /\ err = "invalid vote extensions"

\* With vote extensions disabled PrepareProposal hands the request on as it
\* is: no validation, no marshaling, one downstream call on the original Txs.
PrepareDelegated ==
    /\ CallsTo("validate") = <<>>
    /\ CallsTo("marshal") = <<>>
    /\ Len(CallsTo("prepare")) = 1
    /\ CallsTo("prepare")[1].txs = recv.Txs
    /\ req = recv

\* C8 as stated: with vote extensions disabled PrepareProposal delegates
\* unchanged and what it returns is exactly what the downstream handler
\* returned.
C8_ReturnsDownstreamResponse ==
    (Prepared /\ ~Enabled /\ outcome = "return")
        => /\ PrepareDelegated
           /\ resp = CallsTo("prepare")[1].out

\* C8 amended: with vote extensions disabled PrepareProposal delegates
\* unchanged (no validator call, the downstream handler gets the original
\* Txs, nothing is injected); when the downstream handler returns no error
\* the returned proposal is exactly the downstream response, and when it
\* returns an error PrepareProposal returns an empty proposal with that error.
C8_DelegatesUnchanged ==
    (Prepared /\ ~Enabled)
        => /\ PrepareDelegated
           /\ (outcome = "return" /\ err = "nil")
                 => resp = CallsTo("prepare")[1].out
           /\ CallsTo("prepare")[1].ret # "nil"
                 => /\ outcome = "return"
                    /\ resp = EmptyProposal
                    /\ err = CallsTo("prepare")[1].ret
           /\ (CallsTo("prepare")[1].ret = "nil" /\ ~CallsTo("prepare")[1].out.isNil)
                 => (outcome = "return" /\ err = "nil")

\* C8 witness: a request whose first transaction is the encoding of its own
\* local commit went through with vote extensions disabled, and the
\* downstream handler's reordered list came back as it was.
C8_Witness ==
    /\ Prepared /\ ~Enabled /\ outcome = "return" /\ err = "nil"
    /\ Len(recv.Txs) = 2
    /\ recv.Txs[1] = E
    /\ resp.Txs = Reverse(recv.Txs)
    /\ resp.Txs # recv.Txs

\* C9: with vote extensions disabled ProcessProposal never rejects on its
\* own: for any Txs it calls the downstream process handler on the request's
\* Txs as they are, unmarshals and validates nothing, and returns the
\* downstream result.
C9_ProcessDelegates ==
    (Processed /\ ~Enabled)
        => /\ outcome = "return"
           /\ CallsTo("unmarshal") = <<>>
           /\ CallsTo("validate") = <<>>
           /\ Len(CallsTo("process")) = 1
           /\ CallsTo("process")[1].txs = recv.Txs
           /\ req = recv
           /\ resp = CallsTo("process")[1].out
           /\ err = CallsTo("process")[1].ret

\* C9 witness: an empty proposal was rejected by the downstream handler with
\* vote extensions disabled.
C9_Witness ==
    /\ Processed /\ ~Enabled
    /\ recv.Txs = <<>>
    /\ ~resp.isNil
    /\ resp.Status = "REJECT"
    /\ err = "nil"

\* Prices has returned to goroutine g.
PricesDone(g) ==
    cpc[g] = "idle" /\ result[g].op = "Prices" /\ result[g].outcome # "none"

\* C10: a Prices call on a client on which no Start has succeeded (none has
\* by the time the call returns) fails with the error "oracle client not
\* started", returns no response, and issues no remote call.
C10_PricesNotStarted ==
    \A g \in Callers :
        /\ (PricesDone(g) /\ ~result[g].started)
              => /\ result[g].outcome = "return"
                 /\ result[g].err = "oracle client not started"
                 /\ result[g].resp = "nil"
                 /\ ~result[g].remote
        /\ ~started => ~inflight[g].issued

\* C10 witness: Prices has returned the error on a client that was never
\* started, after another goroutine called Stop on it.
C10_Witness ==
    \E g, h \in Callers :
        /\ PricesDone(g)
        /\ ~started
        /\ result[g].err = "oracle client not started"
        /\ result[h].op = "Stop"

\* Stop has returned to goroutine g.
StopDone(g) ==
    cpc[g] = "idle" /\ result[g].op = "Stop" /\ result[g].outcome # "none"

\* C11: Stop is idempotent: in any state of the client (never started,
\* started, already stopped) a call to Stop returns normally, and two Stops
\* have the same outcome as each other.
C11_StopIdempotent ==
    \A g, h \in Callers :
        /\ StopDone(g) => result[g].outcome = "return"
        /\ (StopDone(g) /\ StopDone(h))
              => /\ result[g].outcome = result[h].outcome
                 /\ result[g].err = result[h].err

\* The downstream prepare handler was called and returned an error.
DownstreamFailed ==
    CallsTo("prepare") # <<>> /\ CallsTo("prepare")[1].ret # "nil"

MarshalFailed ==
    \E i \in 1..Len(calls) : calls[i].fn = "marshal" /\ calls[i].ret # "nil"

CallOrder == [i \in 1..Len(calls) |-> calls[i].fn]

\* The order in which ProcessProposal goes through its collaborators.
ProcessOrder == <<"enabled", "unmarshal", "validate", "process">>

UnmarshalFailed ==
    \E i \in 1..Len(calls) : calls[i].fn = "unmarshal" /\ calls[i].ret # "nil"

\* C19: with vote extensions enabled ProcessProposal checks the length, then
\* unmarshals, then validates, then calls the downstream handler.  If Txs[0]
\* does not unmarshal the result is REJECT and the validator is not called; if
\* the validation fails the result is REJECT; in both cases the downstream
\* process handler is not called and the request's Txs are left unstripped.
C19_ProcessOrder ==
    (Processed /\ Enabled)
        => /\ Len(calls) <= Len(ProcessOrder)
           /\ CallOrder = SubSeq(ProcessOrder, 1, Len(calls))
           /\ Len(recv.Txs) < NumInjectedTxs => CallsTo("unmarshal") = <<>>
           /\ UnmarshalFailed
                 => /\ outcome = "return"
                    /\ ~resp.isNil /\ resp.Status = "REJECT"
                    /\ CallsTo("unmarshal")[1].txs = <<recv.Txs[OracleInfoIndex + 1]>>
                    /\ CallsTo("validate") = <<>>
                    /\ CallsTo("process") = <<>>
                    /\ req = recv
           /\ ValidationFailed
                 => /\ outcome = "return"
                    /\ ~resp.isNil /\ resp.Status = "REJECT"
                    /\ CallsTo("unmarshal")[1].ret = "nil"
                    /\ CallsTo("process") = <<>>
                    /\ req = recv

\* C19 witness: a proposal of two transactions whose first one does not
\* unmarshal was rejected.
C19_Witness ==
    /\ Processed /\ Enabled /\ UnmarshalFailed
    /\ Len(recv.Txs) = 2
    /\ resp.Status = "REJECT"
    /\ err # "nil"

\* The downstream response has E at index 0.
DownstreamKeptHead == Len(Downstream) >= 1 /\ Downstream[OracleInfoIndex + 1] = E

\* C20: re-injection changes nothing but the head of the proposal: with vote
\* extensions enabled, if the downstream response already has E at index 0
\* the returned Txs is the downstream response exactly; otherwise it is E
\* followed by the whole downstream response in its order, one longer than it.
C20_ReinjectionOnlyPrepends ==
    (Prepared /\ Enabled /\ outcome = "return" /\ err = "nil")
        => IF DownstreamKeptHead
           THEN resp.Txs = Downstream
           ELSE /\ resp.Txs = <<E>> \o Downstream
                /\ Len(resp.Txs) = Len(Downstream) + 1
                /\ \A i \in 1..Len(Downstream) : resp.Txs[i + 1] = Downstream[i]

\* C20 witness: the downstream handler dropped the injected bytes from the
\* head of a list of three, and the proposal that came back has E in front
\* of the two that were left.
C20_Witness ==
    /\ Prepared /\ Enabled /\ outcome = "return" /\ err = "nil"
    /\ CallsTo("prepare")[1].txs = <<E>> \o recv.Txs
    /\ Len(recv.Txs) = 2
    /\ Downstream = recv.Txs
    /\ ~DownstreamKeptHead
    /\ resp.Txs = <<E>> \o recv.Txs

\* The aggregation has run on providerPrices.
Aggregated == step \in {"aggregated", "again"}

\* The providers that report a non-nil price for a pair.
Reporting(pp, cp) == {p \in Providers : pp[p][cp].has /\ ~pp[p][cp].isNil}

\* The non-nil prices reported for a pair, in ascending order.
Ascending(pp, cp) ==
    LET n == Cardinality(Reporting(pp, cp))
    IN  CHOOSE s \in [1..n -> PriceValues] :
            /\ \A i \in 1..(n - 1) : s[i] <= s[i + 1]
            /\ \A v \in PriceValues :
                   Cardinality({i \in 1..n : s[i] = v})
                       = Cardinality({p \in Reporting(pp, cp) : pp[p][cp].Price = v})

\* C13: for each pair the aggregated price is the median of the non-nil
\* provider prices sorted ascending: the middle one of an odd count, the mean
\* (a + b) / 2 of the two middle ones, truncated, of an even count; {100, 200}
\* gives 150, {100, 200, 300} gives 200, a single price gives itself.
C13_MedianOfSortedPrices ==
    Aggregated
        => \A cp \in DOMAIN prices :
               LET s == Ascending(providerPrices, cp)
                   n == Len(s)
               IN  /\ n % 2 = 1 => prices[cp] = s[(n + 1) \div 2]
                   /\ n % 2 = 0 => prices[cp] = (s[n \div 2] + s[n \div 2 + 1]) \div 2
                   /\ s = <<100, 200>> => prices[cp] = 150
                   /\ s = <<100, 200, 300>> => prices[cp] = 200
                   /\ n = 1 => prices[cp] = s[1]

\* C13 witness: two providers reported 200 and the largest price, a third
\* none, and the price is their mean with the half dropped.
C13_Witness ==
    /\ step = "aggregated"
    /\ Ascending(providerPrices, "BTC/USD") = <<200, MaxUint>>
    /\ (200 + MaxUint) % 2 = 1
    /\ 2 * prices["BTC/USD"] = 200 + MaxUint - 1

\* C14: the median of an even count does not overflow: for the two middle
\* values a <= b anywhere in the range of a price, a + b >= 2^Width
\* included, the result is floor((a + b) / 2) over the unbounded integers
\* and lies between a and b.
C14_EvenMedianNoOverflow ==
    Aggregated
        => \A cp \in DOMAIN prices :
               LET s == Ascending(providerPrices, cp)
                   n == Len(s)
                   a == s[n \div 2]
                   b == s[n \div 2 + 1]
               IN  n % 2 = 0
                     => /\ 2 * prices[cp] <= a + b
                        /\ a + b < 2 * prices[cp] + 2
                        /\ a <= prices[cp]
                        /\ prices[cp] <= b

\* C14 witness: two providers both reported the largest price, so that the
\* sum needs one bit more than a price has, and the result is that price.
C14_Witness ==
    /\ step = "aggregated"
    /\ Ascending(providerPrices, "BTC/USD") = <<MaxUint, MaxUint>>
    /\ MaxUint + MaxUint >= 2^Width
    /\ prices["BTC/USD"] = MaxUint

\* C15: nil prices are ignored: a pair is in the result exactly when some
\* provider reports a non-nil price for it, a nil quote does not take part in
\* a median, a pair quoted with nil only is left out, and an input without
\* quotes gives an empty result.
C15_NilPricesIgnored ==
    Aggregated
        => /\ DOMAIN prices = {cp \in Pairs : Reporting(providerPrices, cp) # {}}
           /\ \A cp \in DOMAIN prices :
                  /\ \E p \in Reporting(providerPrices, cp) :
                         providerPrices[p][cp].Price <= prices[cp]
                  /\ \E p \in Reporting(providerPrices, cp) :
                         prices[cp] <= providerPrices[p][cp].Price
                  /\ \A p \in Providers \ Reporting(providerPrices, cp) :
                         prices[cp] = ComputeMedian(
                             [providerPrices EXCEPT ![p][cp] = NoQuote],
                             CHOOSE o \in IterationOrders : TRUE)[cp]
           /\ providerPrices = NoProviderPrices => prices = NoPrices

\* C15 witness: one provider quoted the second pair with a nil price and
\* nobody else quoted it; the result holds the first pair only, whose single
\* price came from a provider that quoted it next to a nil quote of another.
C15_Witness ==
    /\ step = "aggregated"
    /\ \E p \in Providers : providerPrices[p]["USDT/USD"] = NilQuote
    /\ Reporting(providerPrices, "USDT/USD") = {}
    /\ \E p \in Providers : providerPrices[p]["BTC/USD"] = NilQuote
    /\ DOMAIN prices = {"BTC/USD"}
    /\ prices["BTC/USD"] = 100

\* C16: aggregation is deterministic and independent of the provider order:
\* the same per-provider prices, aggregated again under any renaming of the
\* providers and in any iteration order of the provider map, give the same
\* price for every pair.
C16_OrderIndependent ==
    step = "again" => pricesAgain = prices

\* C16 witness: three different prices for a pair were aggregated a second
\* time with every provider under another name.
C16_Witness ==
    /\ step = "again"
    /\ Ascending(providerPrices, "BTC/USD") = <<100, 300, MaxUint>>
    /\ \A p \in Providers : renamed[p] # providerPrices[p]
    /\ pricesAgain = prices
    /\ prices["BTC/USD"] = 300

\* The providers that run, and those that are enabled and have pairs.
RunningProviders == {p \in ConfiguredProviders : registry[p].running}

EnabledWithPairs ==
    {p \in ConfiguredProviders :
        registry[p].exists /\ registry[p].Enabled /\ registry[p].Market # {}}

\* The providers whose last start failed.
FailedProviders == {p \in ConfiguredProviders : registry[p].failed}

\* What holds of every Provider State: a provider no market references does
\* not run, and the IDs a provider is subscribed to are the tickers of the
\* subset of the market map recorded in its state, which are its tickers in
\* the current market map.
ProviderStatesConsistent ==
    \A p \in ConfiguredProviders :
        /\ TickersOf(marketMap, p) = {} => ~registry[p].running
        /\ registry[p].ids = registry[p].Market
        /\ registry[p].Market = TickersOf(marketMap, p)

\* C17 as stated: after initialization and after every market-map
\* reconciliation the providers that run are those that are enabled and have
\* a non-empty pair set; a provider referenced by no market does not run, and
\* each provider's subscribed IDs are the tickers of the subset of the market
\* map in its Provider State.
C17_RunningIsEnabledWithPairs ==
    phase \in {"initialized", "started"}
        => /\ RunningProviders = EnabledWithPairs
           /\ ProviderStatesConsistent

\* C17 amended: after initialization no provider runs; after Start and after
\* every reconciliation the providers that run are those that are enabled,
\* have a non-empty pair set and whose start did not fail; a provider
\* referenced by no market does not run, and each provider's subscribed IDs
\* are the tickers of the subset of the market map in its Provider State.
C17_RunningUnlessStartFailed ==
    /\ phase = "initialized" => RunningProviders = {}
    /\ phase = "started" => RunningProviders = EnabledWithPairs \ FailedProviders
    /\ phase \in {"initialized", "started"} => ProviderStatesConsistent

\* C17 witness: with the three providers configured and enabled, a market
\* map that names coinbase and okx for one market and okx for the other has
\* been reconciled: coinbase and okx run, binance does not, and coinbase is
\* subscribed to the one market.
C17_Witness ==
    /\ phase = "started"
    /\ \A p \in ConfiguredProviders : oracleCfg[p]
    /\ marketMap["BITCOIN/USD"] = {"coinbase", "okx"}
    /\ marketMap["ETHEREUM/USD"] = {"okx"}
    /\ RunningProviders = {"coinbase", "okx"}
    /\ ~registry["binance"].exists
    /\ registry["coinbase"].ids = {"BITCOIN/USD"}
    /\ registry["okx"].ids = Markets

\* runOracle has returned with the orchestrator stopped, the root context
\* cancelled and the server not serving.
ShutDown ==
    /\ runPc = "returned"
    /\ orch = "stopped"
    /\ rootCtx = "cancelled"
    /\ srv # "serving"

\* C12: top-level cancellation propagates: once the orchestrator has
\* started, a SIGINT or SIGTERM that arrives leads to the root context being
\* cancelled, the server not serving any more and runOracle having returned
\* with the orchestrator's Stop called; and on every return that follows a
\* successful orchestrator Start the orchestrator is stopped.
C12_CancellationPropagates ==
    /\ [](runPc = "returned" => orch # "started")
    /\ (arrived ~> ShutDown)

\* C12 witness: a signal arrived while the server was serving, the goroutine
\* took it from the channel, and runOracle returned nil with the orchestrator
\* stopped.
C12_Witness ==
    /\ arrived
    /\ watcher = "done"
    /\ srv = "closed"
    /\ ShutDown
    /\ runErr = "nil"

\* C21: each remote price read Prices issues is made under a context whose
\* deadline is no later than the client's timeout after the context was
\* derived, also when the caller's context has no deadline, and with
\* WaitForReady = true; the derived context is cancelled when Prices returns.
C21_PerCallDeadline ==
    \A g \in Callers :
        /\ inflight[g].issued
              => /\ inflight[g].deadline # NoDeadline
                 /\ inflight[g].deadline <= ClientTimeout
                 /\ inflight[g].deadline = derived[g].deadline
                 /\ inflight[g].waitForReady
        /\ cpc[g] = "prices:remote" => (derived[g].live /\ ~derived[g].cancelled)
        /\ PricesDone(g) => (derived[g].live /\ derived[g].cancelled)

\* C21 witness: a remote read whose deadline is the client's timeout has
\* returned the prices, and its context is cancelled.
C21_Witness ==
    \E g \in Callers :
        /\ PricesDone(g)
        /\ result[g].remote
        /\ result[g].resp = "prices"
        /\ inflight[g].deadline = ClientTimeout
        /\ derived[g].cancelled

\* C22: in every proposal PrepareProposal returns without error with vote
\* extensions enabled, E occurs exactly NumInjectedTxs times, at index 0,
\* provided the request's transactions did not contain E and the downstream
\* prepare handler returned only transactions of its input, none duplicated;
\* and after ProcessProposal has stripped the first transaction of such a
\* proposal, the list handed to the downstream process handler does not
\* contain E.
C22_CommitInfoOccursOnce ==
    /\ (/\ Prepared /\ Enabled /\ outcome = "return" /\ err = "nil"
        /\ Count(E, recv.Txs) = 0
        /\ SelectedFrom(Downstream, CallsTo("prepare")[1].txs))
          => /\ Count(E, resp.Txs) = NumInjectedTxs
             /\ resp.Txs[OracleInfoIndex + 1] = E
    /\ (/\ Processed /\ Enabled /\ proposed.built /\ proposed.selected
        /\ Count(Marshal(proposed.Info).bz, proposed.Inner) = 0)
          => \A i \in 1..Len(calls) :
                 calls[i].fn = "process"
                     => Count(Marshal(proposed.Info).bz, calls[i].txs) = 0

\* The goroutines whose remote Prices call is in flight.
InFlight == {g \in Callers : cpc[g] = "prices:remote"}

\* The goroutines inside the critical section of Prices or of Stop.
InCriticalSection ==
    {g \in Callers : cpc[g] \in {"prices:check", "prices:remote", "prices:return",
                                  "stop:close"}}

\* C23: Prices and Stop on one client are mutually exclusive critical
\* sections held for their whole duration: at most one remote Prices call is
\* in flight at any time, and Stop does not close the connection while a
\* Prices call is in flight.
C23_PricesAndStopExclusive ==
    /\ [](/\ Cardinality(InFlight) <= 1
          /\ Cardinality(InCriticalSection) <= 1
          /\ \A g \in InCriticalSection : mtx = g)
    /\ [][\A g \in Callers :
              (cpc[g] = "prices:remote" /\ inflight[g].conn # 0)
                  => /\ conns'[inflight[g].conn] = conns[inflight[g].conn]
                     /\ \A h \in Callers \ {g} : cpc'[h] # "stop:close"]_vars

\* C23 witness: a remote read on an open connection has returned the prices
\* and the other goroutine's Stop has closed that connection afterwards.
C23_Witness ==
    \E g, h \in Callers :
        /\ g # h
        /\ PricesDone(g)
        /\ result[g].resp = "prices"
        /\ StopDone(h)
        /\ result[h].err = "nil"
        /\ conns[inflight[g].conn] = "closed"

\* A holder of the mutex other than a Start that is setting the fields.
ObservedUnderMutex ==
    \/ mtx = 0
    \/ \E g \in Callers : cpc[g] \in {"prices:check", "prices:remote", "prices:return",
                                        "stop:close", "start:client"}

\* A Start of goroutine g gives up on a failed dial in this step.
DialFails(g) ==
    /\ cpc[g] = "idle"
    /\ result'[g] # result[g]
    /\ result'[g].op = "Start"
    /\ result'[g].err = "failed to dial oracle gRPC server"

\* C24: Start publishes the client handle and the connection together: in
\* every state a holder of the mutex can observe, client and conn are both
\* unset or both set with the client wrapping that conn, under any
\* interleaving of Start, Stop and Prices; a Start whose dial fails changes
\* neither.
C24_ClientAndConnTogether ==
    /\ [](ObservedUnderMutex => client = conn)
    /\ [][\A g \in Callers : DialFails(g) => (client' = client /\ conn' = conn)]_vars

\* C24 witness: two Starts ran at the same time; the one that dialed first
\* took the mutex last, so the fields hold its connection, and a later Start
\* failed to dial and left them so.
C24_Witness ==
    \E g, h \in Callers :
        /\ g # h
        /\ mtx = 0
        /\ Len(conns) = 2
        /\ client = 1 /\ conn = 1
        /\ result[g].op = "Start" /\ result[g].err = "nil" /\ cpc[g] = "idle"
        /\ result[h].op = "Start" /\ cpc[h] = "idle"
        /\ result[h].err = "failed to dial oracle gRPC server"

\* A Start of goroutine g has returned nil.
StartSucceeded(g) ==
    cpc[g] = "idle" /\ result[g].op = "Start" /\ result[g].outcome = "return"
        /\ result[g].err = "nil"

\* Prices of goroutine g finds the client nil in this step.
ReportsNotStarted(g) ==
    /\ cpc[g] = "prices:check"
    /\ result'[g].op = "Prices"
    /\ result'[g].err = "oracle client not started"

\* C25: once a Start has succeeded the client handle is non-nil in every
\* later state: Stop closes the connection and does not reset the handle, so
\* no Prices call made after a successful Start, after a Stop included,
\* returns "oracle client not started".
C25_ClientStaysSet ==
    /\ [](\A g \in Callers : StartSucceeded(g) => client # 0)
    /\ [][client # 0 => client' # 0]_vars
    /\ [][client # 0 => \A g \in Callers : ~ReportsNotStarted(g)]_vars

\* C25 witness: after a successful Start and a successful Stop, a Prices
\* call went to the remote call on the closed connection.
C25_Witness ==
    \E g, h \in Callers :
        /\ g # h
        /\ StopDone(h) /\ result[h].err = "nil"
        /\ PricesDone(g) /\ result[g].remote
        /\ result[g].err = "grpc: the client connection is closing"
        /\ client # 0 /\ conns[client] = "closed"

\* The prepare handler was called with a nil request.
PreparedNil == pc = "prepared" /\ recv.isNil

\* C26: PrepareProposal on a nil request returns an empty transaction list
\* and the error "received a nil request", and calls nothing on the way:
\* not the vote-extensions-enabled test, not the validator, not the
\* downstream prepare handler.
C26_NilRequestRejectedFirst ==
    PreparedNil
        => /\ outcome = "return"
           /\ ~resp.isNil
           /\ resp.Txs = <<>>
           /\ err = "received a nil request"
           /\ calls = <<>>

\* C26 witness: a nil request was answered under a context in which vote
\* extensions are enabled.
C26_Witness ==
    /\ PreparedNil
    /\ Enabled
    /\ outcome = "return"
    /\ err = "received a nil request"

\* useLegacyOracleConfig has returned.
ConfigChosen == cfgPc \in {"chosen", "read"}

\* C27: the legacy config is used if and only if --oracle-config is empty and
\* either --oracle-config-path is non-empty (that path is returned) or a file
\* exists at ./oracle.json (that path is returned); a non-empty
\* --oracle-config always selects the non-legacy config.
C27_ConfigSourcePrecedence ==
    /\ ConfigChosen
          => /\ legacyConfigInUse
                   <=> (oracleCfgPath = "" /\ (legacyOracleCfgPath # "" \/ stat.exists))
             /\ (legacyConfigInUse /\ legacyOracleCfgPath # "")
                   => legacyPath = legacyOracleCfgPath
             /\ (legacyConfigInUse /\ legacyOracleCfgPath = "")
                   => legacyPath = DefaultLegacyConfigPath
             /\ oracleCfgPath # "" => ~legacyConfigInUse
    /\ cfgPc = "read"
          => cfgSource = IF legacyConfigInUse
                         THEN [reader |-> "GetLegacyOracleConfig", path |-> legacyPath]
                         ELSE [reader |-> "ReadOracleConfigWithOverrides",
                               path |-> oracleCfgPath]

\* ValidateBasic of the market config has returned nil.
ValidatedNil == mcPc = "returned" /\ mcErr = "nil"

\* The canonical string of the pair parsed from a key.
Canonical(cpStr) == CurrencyPairToString(CurrencyPairFromString(cpStr))

\* C28: when MarketConfig.ValidateBasic returns nil, every key of
\* CurrencyPairToMarketConfigs is the canonical string of the pair parsed
\* from it, and no entry is lost: each market config present before the call
\* is stored under the canonical form of its original key, for every initial
\* map and every iteration order.
C28_KeysCanonicalNoEntryLost ==
    ValidatedNil
        => /\ \A k \in DOMAIN marketConfigs :
                  CurrencyPairFromString(k).err = "nil" /\ Canonical(k) = k
           /\ \A k \in DOMAIN original :
                  /\ Canonical(k) \in DOMAIN marketConfigs
                  /\ marketConfigs[Canonical(k)] = original[k]

\* ValidateBasic of the message has returned.
RemoveValidated == rmPc = "returned"

\* The address string decodes to an account.
ValidAddress(address) == AccAddressFromBech32(address).err = "nil"

\* C29: MsgRemoveMarketAuthorities.ValidateBasic returns nil if and only if
\* the admin is a valid account address, the list of addresses to remove is
\* non-empty, every listed address is a valid account address, and no address
\* occurs twice in the list; it leaves the message unchanged.
C29_RemoveAuthoritiesValid ==
    RemoveValidated
        => /\ rmErr = "nil"
                 <=> /\ ValidAddress(rmGiven.Admin)
                     /\ Len(rmGiven.RemoveAddresses) > 0
                     /\ \A i \in 1..Len(rmGiven.RemoveAddresses) :
                            ValidAddress(rmGiven.RemoveAddresses[i])
                     /\ \A i, j \in 1..Len(rmGiven.RemoveAddresses) :
                            i # j => rmGiven.RemoveAddresses[i] # rmGiven.RemoveAddresses[j]
           /\ rmMsg = rmGiven

\* C29 witness: a message with a valid admin and two different valid
\* addresses was accepted, and it is as it was.
C29_Witness ==
    /\ RemoveValidated
    /\ rmErr = "nil"
    /\ Len(rmGiven.RemoveAddresses) >= 2
    /\ rmGiven.RemoveAddresses[1] = "cosmos1b"
    /\ rmGiven.RemoveAddresses[2] = "cosmos1a"
    /\ rmMsg = rmGiven

====
